---- MODULE Spec2Model ----
(***************************************************************************)
(* LSFTP: the file-transfer sub-protocol between lsftp-client's            *)
(* upload_file and lsftp-server's session handler (FileOpen / FileData /   *)
(* FileClose), over the QUIC transport of lsftp-core.                      *)
(***************************************************************************)
EXTENDS Integers, Sequences, FiniteSets, TLC

(***************************************************************************)
(* Bounds of the model.                                                    *)
(***************************************************************************)
MaxFaults == 1           \* transport faults per connection: failed sends, altered frames

Bytes == {0, 1}
FileIds == {"u1", "u2"}  \* the values Uuid::new_v4() may return

(***************************************************************************)
(* Configuration the programs run with.                                    *)
(***************************************************************************)
chunk_size == 1          \* ClientConfig.chunk_size
max_file_size == 2       \* Cli.max_file_size
MaxRetries == 3          \* upload_file: `if retry_count > 3`

\* The local files the client uploads, as metadata().len() reports the file
\* when upload_file starts and as the reads then return it: empty, of
\* max_file_size bytes, larger, and one truncated by another process meanwhile
LocalFiles ==
    { [len |-> 0, data |-> <<>>],
      [len |-> 2, data |-> <<0, 1>>],
      [len |-> 3, data |-> <<1, 0, 1>>],
      [len |-> 2, data |-> <<0>>] }

Min(a, b) == IF a < b THEN a ELSE b

(***************************************************************************)
(* blake3::Hasher.  The state is the running value of the absorbed bytes;  *)
(* update folds the bytes in, finalize reads the digest without resetting. *)
(* The fold is injective on byte strings (a collision-free digest).        *)
(***************************************************************************)
HashBase == Cardinality(Bytes) + 1

HasherNew == [acc |-> 0]

RECURSIVE Absorb(_, _)
Absorb(acc, data) ==
    IF data = <<>> THEN acc
    ELSE Absorb(acc * HashBase + Head(data) + 1, Tail(data))

\* update of a hasher that starts afresh at every call
HasherUpdateFresh(h, data) == [acc |-> Absorb(HasherNew.acc, data)]

HasherUpdate(h, data) == [acc |-> Absorb(h.acc, data)]

HasherFinalize(h) == h.acc

\* blake3 digest of a whole byte string, hashed in one piece
HashOf(data) == HasherFinalize(HasherUpdate(HasherNew, data))

ZeroHash == 0

(***************************************************************************)
(* std::path.  A path is its root flag and its components.                 *)
(***************************************************************************)
Rel(comps) == [absolute |-> FALSE, comps |-> comps]
Abs(comps) == [absolute |-> TRUE, comps |-> comps]

root_dir == Abs(<<"var", "lsftp">>)

\* Path::join: an absolute argument replaces the base
PathJoin(base, p) ==
    IF p.absolute THEN p
    ELSE [absolute |-> base.absolute, comps |-> base.comps \o p.comps]

\* Path::starts_with: component-wise prefix, `..` is an ordinary component
PathStartsWith(p, base) ==
    /\ p.absolute = base.absolute
    /\ Len(p.comps) >= Len(base.comps)
    /\ SubSeq(p.comps, 1, Len(base.comps)) = base.comps

\* Path::parent
PathParent(p) ==
    IF p.comps = <<>> THEN p
    ELSE [absolute |-> p.absolute, comps |-> SubSeq(p.comps, 1, Len(p.comps) - 1)]

\* The location the operating system opens for a path: `..` steps up
RECURSIVE ResolveComps(_, _)
ResolveComps(stack, comps) ==
    IF comps = <<>> THEN stack
    ELSE IF Head(comps) = ".."
         THEN ResolveComps(IF stack = <<>> THEN <<>>
                           ELSE SubSeq(stack, 1, Len(stack) - 1), Tail(comps))
         ELSE ResolveComps(Append(stack, Head(comps)), Tail(comps))

Resolve(p) == ResolveComps(<<>>, p.comps)

HasDotDot(p) == \E i \in 1..Len(p.comps) : p.comps[i] = ".."

InsideRoot(loc) ==
    /\ Len(loc) >= Len(root_dir.comps)
    /\ SubSeq(loc, 1, Len(root_dir.comps)) = root_dir.comps

\* The remote paths a client asks for
RequestPaths ==
    { Rel(<<"a">>),
      Rel(<<"..", "..", "etc", "passwd">>),
      Abs(<<"etc", "passwd">>) }

Locations == { Resolve(PathJoin(root_dir, p)) : p \in RequestPaths }

(***************************************************************************)
(* Byte strings on the wire (Vec<u8>, &[u8]).  A byte string is the list   *)
(* of its runs of equal bytes, each run its length n > 0 and its byte b,   *)
(* adjacent runs holding different bytes: equal strings have equal lists.  *)
(***************************************************************************)
Run(n, b) == IF n = 0 THEN <<>> ELSE <<[n |-> n, b |-> b]>>

RECURSIVE BLen(_)
BLen(d) == IF d = <<>> THEN 0 ELSE Head(d).n + BLen(Tail(d))

\* Vec::extend_from_slice
BCat(d1, d2) ==
    IF d1 = <<>> THEN d2
    ELSE IF d2 = <<>> THEN d1
    ELSE IF d1[Len(d1)].b = Head(d2).b
    THEN SubSeq(d1, 1, Len(d1) - 1)
           \o <<[n |-> d1[Len(d1)].n + Head(d2).n, b |-> Head(d2).b]>>
           \o Tail(d2)
    ELSE d1 \o d2

RECURSIVE BTake(_, _)
BTake(d, k) ==
    IF k = 0 \/ d = <<>> THEN <<>>
    ELSE IF Head(d).n <= k THEN <<Head(d)>> \o BTake(Tail(d), k - Head(d).n)
    ELSE <<[n |-> k, b |-> Head(d).b]>>

RECURSIVE BDrop(_, _)
BDrop(d, k) ==
    IF k = 0 \/ d = <<>> THEN d
    ELSE IF Head(d).n <= k THEN BDrop(Tail(d), k - Head(d).n)
    ELSE <<[n |-> Head(d).n - k, b |-> Head(d).b]>> \o Tail(d)

\* data[from..to]
BSlice(d, from, to) == BTake(BDrop(d, from), to - from)

\* data[i], counted from 0
BAt(d, i) == Head(BDrop(d, i)).b

\* The byte string of a sequence of bytes
RECURSIVE BlobOf(_)
BlobOf(seq) ==
    IF seq = <<>> THEN <<>> ELSE BCat(Run(1, Head(seq)), BlobOf(Tail(seq)))

\* uN::to_be_bytes, for a value of width bytes
RECURSIVE to_be_bytes(_, _)
to_be_bytes(value, width) ==
    IF width = 0 THEN <<>>
    ELSE Append(to_be_bytes(value \div 256, width - 1), value % 256)

\* uN::from_be_bytes([data[at], .., data[at + width - 1]])
RECURSIVE from_be_bytes(_, _, _)
from_be_bytes(d, at, width) ==
    IF width = 0 THEN 0
    ELSE from_be_bytes(d, at, width - 1) * 256 + BAt(d, at + width - 1)

(***************************************************************************)
(* lsftp-core protocol: MessageType, Flags, Frame.                         *)
(***************************************************************************)
PROTOCOL_VERSION == 1

MessageTypes ==
    {"Handshake", "FileOpen", "FileData", "FileClose",
     "Heartbeat", "PolicyUpdate", "EmergencyStop"}

\* `message_type as u8`
MessageTypeAsU8(t) ==
    CASE t = "Handshake"     -> 1
      [] t = "FileOpen"      -> 2
      [] t = "FileData"      -> 3
      [] t = "FileClose"     -> 4
      [] t = "Heartbeat"     -> 5
      [] t = "PolicyUpdate"  -> 6
      [] t = "EmergencyStop" -> 7

\* MessageType::try_from(u8) where 0x00 is read as a Handshake
MessageTypeTryFromZero(value) ==
    CASE value \in {0, 1} -> [ok |-> TRUE, value |-> "Handshake"]
      [] value = 2 -> [ok |-> TRUE, value |-> "FileOpen"]
      [] value = 3 -> [ok |-> TRUE, value |-> "FileData"]
      [] value = 4 -> [ok |-> TRUE, value |-> "FileClose"]
      [] value = 5 -> [ok |-> TRUE, value |-> "Heartbeat"]
      [] value = 6 -> [ok |-> TRUE, value |-> "PolicyUpdate"]
      [] value = 7 -> [ok |-> TRUE, value |-> "EmergencyStop"]
      [] OTHER -> [ok |-> FALSE, value |-> "Protocol"]

\* MessageType::try_from(u8)
MessageTypeTryFrom(value) ==
    CASE value = 1 -> [ok |-> TRUE, value |-> "Handshake"]
      [] value = 2 -> [ok |-> TRUE, value |-> "FileOpen"]
      [] value = 3 -> [ok |-> TRUE, value |-> "FileData"]
      [] value = 4 -> [ok |-> TRUE, value |-> "FileClose"]
      [] value = 5 -> [ok |-> TRUE, value |-> "Heartbeat"]
      [] value = 6 -> [ok |-> TRUE, value |-> "PolicyUpdate"]
      [] value = 7 -> [ok |-> TRUE, value |-> "EmergencyStop"]
      [] OTHER -> [ok |-> FALSE, value |-> "Protocol"]

\* (value & mask) != 0, for a mask of one bit
BitSet(value, mask) == (value \div mask) % 2 = 1

\* Flags::default
FlagsDefault ==
    [eom |-> FALSE, compressed |-> FALSE, encrypted |-> TRUE,
     requires_ack |-> FALSE, high_priority |-> FALSE]

\* Flags::from(u16) with the bits read in another order
FlagsFromU16Swapped(value) ==
    [eom |-> BitSet(value, 2), compressed |-> BitSet(value, 1),
     encrypted |-> BitSet(value, 4), requires_ack |-> BitSet(value, 8),
     high_priority |-> BitSet(value, 16)]

\* Flags::from(u16)
FlagsFromU16(value) ==
    [eom |-> BitSet(value, 1), compressed |-> BitSet(value, 2),
     encrypted |-> BitSet(value, 4), requires_ack |-> BitSet(value, 8),
     high_priority |-> BitSet(value, 16)]

\* u16::from(Flags) with high_priority written to bit 5
FlagsToU16Shifted(flags) ==
    (IF flags.eom THEN 1 ELSE 0) + (IF flags.compressed THEN 2 ELSE 0)
    + (IF flags.encrypted THEN 4 ELSE 0) + (IF flags.requires_ack THEN 8 ELSE 0)
    + (IF flags.high_priority THEN 32 ELSE 0)

\* u16::from(Flags)
FlagsToU16(flags) ==
    (IF flags.eom THEN 1 ELSE 0) + (IF flags.compressed THEN 2 ELSE 0)
    + (IF flags.encrypted THEN 4 ELSE 0) + (IF flags.requires_ack THEN 8 ELSE 0)
    + (IF flags.high_priority THEN 16 ELSE 0)

HeaderSize == 24         \* Frame::deserialize: payload_start
TagSize == 32            \* Frame.hmac: [u8; 32]
MinFrameSize == 48       \* Frame::deserialize: `data.len() < 48`

\* Frame::new, at the given time
FrameNew(message_type, payload, timestamp) ==
    [version |-> PROTOCOL_VERSION, message_type |-> message_type,
     flags |-> FlagsDefault, length |-> BLen(payload), sequence |-> 0,
     timestamp |-> timestamp, payload |-> payload, hmac |-> Run(TagSize, 0)]

\* Frame::serialize
FrameSerialize(frame) ==
    BCat(BlobOf(<<frame.version, MessageTypeAsU8(frame.message_type)>>
                \o to_be_bytes(FlagsToU16(frame.flags), 2)
                \o to_be_bytes(frame.length, 4)
                \o to_be_bytes(frame.sequence, 8)
                \o to_be_bytes(frame.timestamp, 8)),
         BCat(frame.payload, frame.hmac))

ProtocolError(why) == [ok |-> FALSE, error |-> "Protocol", why |-> why]

\* Frame::deserialize without the second length test
FrameAlwaysComplete(data, hmac_start) == TRUE

\* Frame::deserialize: the test against `Frame incomplete`
FrameComplete(data, hmac_start) == ~(BLen(data) < hmac_start + TagSize)

\* Frame::deserialize
FrameDeserialize(data) ==
    IF BLen(data) < MinFrameSize THEN ProtocolError("Frame too short")
    ELSE LET version      == BAt(data, 0)
             message_type == MessageTypeTryFrom(BAt(data, 1))
             flags        == FlagsFromU16(from_be_bytes(data, 2, 2))
             length       == from_be_bytes(data, 4, 4)
             sequence     == from_be_bytes(data, 8, 8)
             timestamp    == from_be_bytes(data, 16, 8)
             payload_start == HeaderSize
             payload_end  == payload_start + length
             hmac_start   == payload_end
         IN  IF ~message_type.ok THEN ProtocolError("Unknown message type")
             ELSE IF ~FrameComplete(data, hmac_start)
             THEN ProtocolError("Frame incomplete")
             ELSE [ok |-> TRUE,
                   frame |-> [version |-> version,
                              message_type |-> message_type.value,
                              flags |-> flags, length |-> length,
                              sequence |-> sequence, timestamp |-> timestamp,
                              payload |-> BSlice(data, payload_start, payload_end),
                              hmac |-> BSlice(data, hmac_start, hmac_start + TagSize)]]

(***************************************************************************)
(* Frames in flight.  Every send_message opens a stream of its own; a      *)
(* frame is the stream it travels on and the typed payload it carries.     *)
(* upload, altered and sent_ok are history fields: the upload_file call    *)
(* that built the frame, whether its data was changed in transit, and      *)
(* whether the send_message that wrote it returned Ok.  sequence is the    *)
(* header field as Frame::new sets it; send_message sends it as it is.     *)
(***************************************************************************)
NoPath == Rel(<<>>)
NoId == "none"
NoStats == [bytes_transferred |-> 0, chunks_count |-> 0, retries_count |-> 0]

Frame(type) ==
    [type |-> type, conn |-> "none", stream |-> 0, upload |-> 0, altered |-> FALSE,
     sent_ok |-> FALSE,
     sequence |-> FrameNew(type, <<>>, 0).sequence,
     path |-> NoPath, size |-> 0, hash |-> ZeroHash,
     file_id |-> NoId, chunk_index |-> 0, data |-> <<>>, chunk_hash |-> ZeroHash,
     final_hash |-> ZeroHash, statistics |-> NoStats]

FileOpenMessage(path, size) ==
    [Frame("FileOpen") EXCEPT !.path = path, !.size = size, !.hash = ZeroHash]

\* A FileData frame that always carries chunk_index 0
FileDataMessageIndexZero(file_id, chunk_index, data, chunk_hash) ==
    [Frame("FileData") EXCEPT !.file_id = file_id, !.chunk_index = 0,
                              !.data = data, !.chunk_hash = chunk_hash]

FileDataMessage(file_id, chunk_index, data, chunk_hash) ==
    [Frame("FileData") EXCEPT !.file_id = file_id, !.chunk_index = chunk_index,
                              !.data = data, !.chunk_hash = chunk_hash]

FileCloseMessage(file_id, final_hash, statistics) ==
    [Frame("FileClose") EXCEPT !.file_id = file_id, !.final_hash = final_hash,
                               !.statistics = statistics]

VARIABLES
    cli,            \* per connection: the LsftpClient and its running upload_file
    net,            \* frames written to a stream and not yet received
    handler,        \* per connection: the server's spawned handle_session task
    srv_sessions,   \* QuicServerTransport.sessions
    file_sessions,  \* LsftpServer.file_sessions: file_id -> FileSession
    fs,             \* files on the server's disk, by location
    fifo,           \* history: per connection, every frame was handled in sending order
    opened,         \* history: the uploads whose FileOpen the server accepted
    last,           \* history: the last frame the server handled, and the outcome
    faults,         \* per connection: the transport faults that have happened
    codec,          \* the frame codec at work: the frame, the bytes, the parse result
    tr,             \* a QuicTransport and a QuicServerTransport driven through their API
    setup,          \* what a run starts with: the server's Cli, the client's chunk size,
                    \* the faults the transport may show, the connections, the disk
    audit,          \* an AuditLogger, the event at hand and the entries it has emitted
    dl,             \* a download_file call and the frames its receive_message returns
    crypto,         \* a CryptoSuite, its last sign and its last verify
    locks           \* the server's two locks and the tasks that take them

vars == <<cli, net, handler, srv_sessions, file_sessions, fs, fifo, opened, last,
          faults, codec, tr, setup, audit, dl, crypto, locks>>

\* The connections the server accepts in this run
Sessions == DOMAIN cli

\* The file-transfer programs leave the codec, transport and audit objects
\* below alone, and nothing changes what a run started with
LibraryUnchanged == UNCHANGED <<codec, tr, setup, audit, dl, crypto, locks>>

\* and those objects leave the programs alone
ProgramUnchanged ==
    UNCHANGED <<cli, net, handler, srv_sessions, file_sessions, fs, fifo, opened,
                last, faults, setup>>

(***************************************************************************)
(* lsftp-client: LsftpClient                                               *)
(***************************************************************************)
ClientNew ==
    [state |-> "none", pc |-> "idle", uploads |-> 0, verifies |-> 0, result |-> "none",
     streams |-> 0, messages_sent |-> 0,
     file |-> <<>>, file_size |-> 0, file_id |-> NoId, pos |-> 0,
     chunk |-> <<>>, chunk_hash |-> ZeroHash, hasher |-> HasherNew,
     total_bytes |-> 0, chunks_count |-> 0, retry_count |-> 0, retries_count |-> 0]

\* upload_file returns: its locals go out of scope
Returned(c, result) ==
    [c EXCEPT !.pc = "idle", !.result = result,
              !.file = <<>>, !.file_size = 0, !.file_id = NoId, !.pos = 0,
              !.chunk = <<>>, !.chunk_hash = ZeroHash, !.hasher = HasherNew,
              !.total_bytes = 0, !.chunks_count = 0, !.retry_count = 0,
              !.retries_count = 0]

(***************************************************************************)
(* QuicTransport::send_message.  open_bi, write_all and finish can each    *)
(* fail: "lost" is a failure before the frame is written, "late_error" a   *)
(* failure of finish after write_all has put the frame on the stream.      *)
(***************************************************************************)
SendOutcomes == {"ok", "lost", "late_error"}

Written(outcome) == outcome \in {"ok", "late_error"}

send_message(c, s, message, outcome) ==
    [sent |-> IF Written(outcome)
              THEN {[message EXCEPT !.conn = s, !.stream = c.streams, !.upload = c.uploads,
                                     !.sent_ok = outcome = "ok"]}
              ELSE {},
     client |-> [c EXCEPT !.streams = IF Written(outcome) THEN @ + 1 ELSE @,
                          !.messages_sent = IF outcome = "ok" THEN @ + 1 ELSE @]]

\* The transport may fail a send while its fault budget lasts
MayHappen(s, outcome) == outcome = "ok" \/ faults[s] < setup.fault_budget

Sent(s, r, outcome) ==
    /\ net' = net \cup r.sent
    /\ faults' = IF outcome = "ok" THEN faults ELSE [faults EXCEPT ![s] = @ + 1]

ServerUnchanged ==
    /\ UNCHANGED <<handler, srv_sessions, file_sessions, fs, fifo, opened, last>>
    /\ LibraryUnchanged

\* LsftpClient::connect with QuicServerTransport::accept_connection and the
\* spawn of handle_session for the accepted connection
Connect(s) ==
    /\ cli[s].state = "none"
    /\ cli' = [cli EXCEPT ![s].state = "Ready"]
    /\ srv_sessions' = [k \in DOMAIN srv_sessions \cup {s} |->
                          IF k = s THEN [state |-> "Handshaking", messages_sent |-> 0]
                          ELSE srv_sessions[k]]
    /\ handler' = [handler EXCEPT ![s] = "running"]
    /\ UNCHANGED <<net, file_sessions, fs, fifo, opened, last, faults>>
    /\ LibraryUnchanged

\* upload_file up to the FileOpen it sends.  A connection carries one
\* upload_file call, and after it at most one verify_file call.
UploadStart(s) ==
    /\ cli[s].state = "Ready"
    /\ cli[s].pc = "idle"
    /\ cli[s].uploads = 0
    /\ cli[s].verifies = 0
    /\ \E file \in LocalFiles, remote_path \in RequestPaths,
          file_id \in FileIds, outcome \in SendOutcomes :
         LET c0 == [cli[s] EXCEPT !.uploads = @ + 1]
             r  == send_message(c0, s, FileOpenMessage(remote_path, file.len), outcome)
         IN  /\ MayHappen(s, outcome)
             /\ Sent(s, r, outcome)
             /\ cli' = [cli EXCEPT ![s] =
                          IF outcome = "ok"
                          THEN [r.client EXCEPT !.pc = "reading", !.result = "none",
                                                !.file = file.data, !.file_size = file.len,
                                                !.file_id = file_id]
                          ELSE Returned(r.client, "Err")]
    /\ ServerUnchanged

\* upload_file: one file.read into the buffer
ReadChunk(s) ==
    /\ cli[s].pc = "reading"
    /\ LET c == cli[s]
           left == Len(c.file) - c.pos
       IN  IF left = 0
           THEN cli' = [cli EXCEPT ![s].pc = "closing"]
           ELSE \E bytes_read \in 1..Min(setup.chunk_size, left) :
                  LET chunk_data == SubSeq(c.file, c.pos + 1, c.pos + bytes_read)
                      hasher == HasherUpdate(c.hasher, chunk_data)
                  IN  cli' = [cli EXCEPT ![s].pc = "sending",
                                         ![s].pos = c.pos + bytes_read,
                                         ![s].chunk = chunk_data,
                                         ![s].hasher = hasher,
                                         ![s].chunk_hash = HasherFinalize(hasher),
                                         ![s].retry_count = 0]
    /\ UNCHANGED <<net, faults>>
    /\ ServerUnchanged

\* upload_file: a retry loop that never gives up
RetriesNeverExhausted(retry_count) == FALSE

\* upload_file: `if retry_count > 3 { return Err(e); }`
RetriesExhausted(retry_count) == retry_count > MaxRetries

\* upload_file: one pass of the retry loop that sends the current chunk
SendChunk(s) ==
    /\ cli[s].pc = "sending"
    /\ \E outcome \in SendOutcomes :
         LET c == cli[s]
             r == send_message(c, s, FileDataMessage(c.file_id, c.chunks_count,
                                                     c.chunk, c.chunk_hash), outcome)
             retried == [r.client EXCEPT !.retry_count = @ + 1, !.retries_count = @ + 1]
         IN  /\ MayHappen(s, outcome)
             /\ Sent(s, r, outcome)
             /\ cli' = [cli EXCEPT ![s] =
                          IF outcome = "ok"
                          THEN [r.client EXCEPT !.pc = "reading",
                                                !.total_bytes = @ + Len(c.chunk),
                                                !.chunks_count = @ + 1,
                                                !.chunk = <<>>, !.chunk_hash = ZeroHash,
                                                !.retry_count = 0]
                          ELSE IF RetriesExhausted(retried.retry_count)
                               THEN Returned(retried, "Err")
                               ELSE retried]
    /\ ServerUnchanged

\* upload_file: the FileClose after the last chunk.  The statistics divide by
\* the elapsed milliseconds; every retry sleeps at least 100 ms.
SendClose(s) ==
    /\ cli[s].pc = "closing"
    /\ \E elapsed_ms \in {0, 1}, outcome \in SendOutcomes :
         LET c == cli[s]
             statistics == [bytes_transferred |-> c.total_bytes,
                            chunks_count |-> c.chunks_count,
                            retries_count |-> c.retries_count]
             r == send_message(c, s, FileCloseMessage(c.file_id, HasherFinalize(c.hasher),
                                                      statistics), outcome)
         IN  /\ elapsed_ms = 0 => c.retries_count = 0 /\ outcome = "ok"
             /\ MayHappen(s, outcome)
             /\ IF elapsed_ms = 0
                THEN /\ cli' = [cli EXCEPT ![s].pc = "panicked"]
                     /\ UNCHANGED <<net, faults>>
                ELSE /\ Sent(s, r, outcome)
                     /\ cli' = [cli EXCEPT ![s] =
                                  Returned(r.client, IF outcome = "ok" THEN "Ok" ELSE "Err")]
    /\ ServerUnchanged

\* verify_file: a FileOpen of size 0 for the path, then receive_message
VerifyFile(s) ==
    /\ cli[s].state = "Ready"
    /\ cli[s].pc = "idle"
    /\ cli[s].verifies = 0
    /\ \E remote_path \in RequestPaths, outcome \in SendOutcomes :
         LET c0 == [cli[s] EXCEPT !.verifies = @ + 1]
             r  == send_message(c0, s, FileOpenMessage(remote_path, 0), outcome)
         IN  /\ MayHappen(s, outcome)
             /\ Sent(s, r, outcome)
             /\ cli' = [cli EXCEPT ![s] =
                          IF outcome = "ok"
                          THEN [r.client EXCEPT !.pc = "awaiting", !.result = "none"]
                          ELSE Returned(r.client, "Err")]
    /\ ServerUnchanged

\* LsftpClient::disconnect (QuicTransport::close), by the caller after
\* upload_file has returned, or after verify_file's receive_message has ended
Disconnect(s) ==
    /\ cli[s].state = "Ready"
    /\ cli[s].pc \in {"idle", "awaiting"}
    /\ cli' = [cli EXCEPT ![s] = [Returned(@, @.result) EXCEPT !.state = "Closed"]]
    /\ UNCHANGED <<net, faults>>
    /\ ServerUnchanged

\* The data of a FileData frame is altered between send and write
Corrupt(s) ==
    /\ faults[s] < setup.fault_budget
    /\ \E m \in net, i \in 1..chunk_size, b \in Bytes :
         /\ m.conn = s
         /\ m.type = "FileData"
         /\ ~m.altered
         /\ i <= Len(m.data)
         /\ b # m.data[i]
         /\ net' = (net \ {m}) \cup {[m EXCEPT !.data[i] = b, !.altered = TRUE]}
    /\ faults' = [faults EXCEPT ![s] = @ + 1]
    /\ UNCHANGED cli
    /\ ServerUnchanged

(***************************************************************************)
(* lsftp-server: FileSession and the three handlers.  owner, upload and    *)
(* accepted are history fields: the connection and upload whose FileOpen   *)
(* created the session, and the chunks absorbed so far, in order.          *)
(***************************************************************************)
NoHandle == [open |-> FALSE, pos |-> 0]

FileSessionNew(file_id, file_path, file_size) ==
    [file_id |-> file_id, file_path |-> file_path, file_size |-> file_size,
     chunks_received |-> 0, total_bytes |-> 0, hasher |-> HasherNew,
     file_handle |-> NoHandle,
     owner |-> "none", upload |-> 0, accepted |-> <<>>]

NoFileSession == FileSessionNew(NoId, NoPath, 0)

NoFile == [exists |-> FALSE, data |-> <<>>]

\* Where the server's file for a requested path lies on disk
Target(path) == Resolve(PathJoin(root_dir, path))

\* write_all through a handle opened without truncate or append
WriteAt(content, pos, data) ==
    SubSeq(content, 1, pos) \o data \o SubSeq(content, pos + Len(data) + 1, Len(content))

\* HashMap::insert and HashMap::remove
MapInsert(map, k, v) == [x \in DOMAIN map \cup {k} |-> IF x = k THEN v ELSE map[x]]
MapRemove(map, k) == [x \in DOMAIN map \ {k} |-> map[x]]

IoOutcomes == {"ok", "fail"}

Outcome(ok, why, table, disk, session) ==
    [ok |-> ok, why |-> why, table |-> table, disk |-> disk, session |-> session]

\* handle_file_open: the size check
SizeAllowed(payload) == ~(payload.size > setup.max_file_size)

\* handle_file_open: the path check on root_dir.join(path)
PathAllowed(payload) == PathStartsWith(PathJoin(root_dir, payload.path), root_dir)

handle_file_open(s, payload, new_id, io) ==
    IF ~SizeAllowed(payload)
    THEN Outcome(FALSE, "size", file_sessions, fs, NoFileSession)
    ELSE IF ~PathAllowed(payload)
    THEN Outcome(FALSE, "traversal", file_sessions, fs, NoFileSession)
    ELSE IF io = "fail"
    THEN Outcome(FALSE, "create_dir", file_sessions, fs, NoFileSession)
    ELSE LET file_session ==
                 [FileSessionNew(new_id, payload.path, payload.size)
                    EXCEPT !.owner = s, !.upload = payload.upload]
         IN  Outcome(TRUE, "none", MapInsert(file_sessions, new_id, file_session),
                     fs, file_session)

\* handle_file_data: the statistics and hasher update after the write
Absorbed(file_session, payload) ==
    [file_session EXCEPT
       !.chunks_received = @ + 1,
       !.total_bytes = @ + Len(payload.data),
       !.hasher = HasherUpdate(@, payload.data),
       !.accepted = Append(@, [chunk_index |-> payload.chunk_index,
                               data |-> payload.data])]

handle_file_data(s, payload, open_io, write_io) ==
    IF payload.file_id \notin DOMAIN file_sessions
    THEN Outcome(FALSE, "not_found", file_sessions, fs, NoFileSession)
    ELSE LET before == file_sessions[payload.file_id]
             loc == Target(before.file_path)
         IN  IF ~before.file_handle.open /\ open_io = "fail"
             THEN Outcome(FALSE, "open", file_sessions, fs, before)
             ELSE LET handle == IF before.file_handle.open THEN before.file_handle
                                ELSE [open |-> TRUE, pos |-> 0]
                      created == IF fs[loc].exists THEN fs
                                 ELSE [fs EXCEPT ![loc] = [exists |-> TRUE, data |-> <<>>]]
                      held == [before EXCEPT !.file_handle = handle]
                  IN  IF write_io = "fail"
                      THEN Outcome(FALSE, "write",
                                   [file_sessions EXCEPT ![payload.file_id] = held],
                                   created, held)
                      ELSE LET written ==
                                   [created EXCEPT ![loc].data =
                                      WriteAt(@, handle.pos, payload.data)]
                               after == Absorbed(
                                   [held EXCEPT !.file_handle.pos = @ + Len(payload.data)],
                                   payload)
                           IN  Outcome(TRUE, "none",
                                       [file_sessions EXCEPT ![payload.file_id] = after],
                                       written, after)

\* handle_file_close without the final hash comparison
FinalHashUnchecked(file_session, payload) == TRUE

\* handle_file_close: the final hash comparison
FinalHashMatches(file_session, payload) ==
    HasherFinalize(file_session.hasher) = payload.final_hash

handle_file_close(s, payload, io) ==
    IF payload.file_id \notin DOMAIN file_sessions
    THEN Outcome(FALSE, "not_found", file_sessions, fs, NoFileSession)
    ELSE LET file_session == file_sessions[payload.file_id]
             removed == MapRemove(file_sessions, payload.file_id)
         IN  IF file_session.file_handle.open /\ io = "fail"
             THEN Outcome(FALSE, "flush", removed, fs, file_session)
             ELSE IF ~FinalHashMatches(file_session, payload)
             THEN Outcome(FALSE, "integrity", removed, fs, file_session)
             ELSE Outcome(TRUE, "none", removed, fs, file_session)

\* QuicServerTransport::send_to_session: counts the message for a known session
send_to_session(s) ==
    [k \in DOMAIN srv_sessions |->
       IF k = s THEN [srv_sessions[k] EXCEPT !.messages_sent = @ + 1]
       ELSE srv_sessions[k]]

\* The frames the server's receive_message can return next on a connection:
\* streams are delivered independently of one another
Receivable(s) == {m \in net : m.conn = s}

NoLast ==
    [op |-> "none", conn |-> "none", state |-> "none",
     ok |-> FALSE, error |-> "none", why |-> "none",
     msg |-> Frame("none"), session |-> NoFileSession,
     in_order |-> TRUE, open_accepted |-> FALSE, clash |-> FALSE, file_before |-> NoFile,
     table_before |-> <<>>, sent_before |-> 0]

\* handle_session: one pass of the loop on a received frame; an Err from the
\* handler ends the task
Handled(s, m, out) ==
    /\ net' = net \ {m}
    /\ file_sessions' = out.table
    /\ fs' = out.disk
    /\ srv_sessions' = IF out.ok THEN send_to_session(s) ELSE srv_sessions
    /\ handler' = IF out.ok THEN handler ELSE [handler EXCEPT ![s] = "failed"]
    /\ fifo' = [fifo EXCEPT ![s] = @ /\ \A m2 \in Receivable(s) : m2.stream >= m.stream]
    /\ opened' = IF m.type = "FileOpen" /\ out.ok
                 THEN opened \cup {<<s, m.upload>>} ELSE opened
    /\ last' = [op |-> m.type, conn |-> s, state |-> srv_sessions[s].state,
                ok |-> out.ok,
                error |-> IF out.ok THEN "none" ELSE "File", why |-> out.why,
                msg |-> m, session |-> out.session,
                in_order |-> (\A m2 \in Receivable(s) :
                                m2.file_id = m.file_id => m2.stream >= m.stream),
                open_accepted |-> (<<s, m.upload>> \in opened),
                clash |-> (\E k \in DOMAIN file_sessions :
                              /\ file_sessions[k].owner = s
                              /\ file_sessions[k].file_path = m.path),
                file_before |-> IF out.session.file_id = NoId THEN NoFile
                                ELSE fs[Target(out.session.file_path)],
                table_before |-> file_sessions,
                sent_before |-> srv_sessions[s].messages_sent]
    /\ UNCHANGED <<cli, faults>>
    /\ LibraryUnchanged

ReceiveFileOpen(s) ==
    /\ handler[s] = "running"
    /\ \E m \in Receivable(s), new_id \in FileIds, io \in IoOutcomes :
         /\ m.type = "FileOpen"
         /\ Handled(s, m, handle_file_open(s, m, new_id, io))

ReceiveFileData(s) ==
    /\ handler[s] = "running"
    /\ \E m \in Receivable(s), open_io \in IoOutcomes, write_io \in IoOutcomes :
         /\ m.type = "FileData"
         /\ Handled(s, m, handle_file_data(s, m, open_io, write_io))

ReceiveFileClose(s) ==
    /\ handler[s] = "running"
    /\ \E m \in Receivable(s), io \in IoOutcomes :
         /\ m.type = "FileClose"
         /\ Handled(s, m, handle_file_close(s, m, io))

\* handle_session: receive_message returns Err (the connection is gone)
ReceiveError(s) ==
    /\ handler[s] = "running"
    /\ handler' = [handler EXCEPT ![s] = "failed"]
    /\ UNCHANGED <<cli, net, srv_sessions, file_sessions, fs, fifo, opened, last, faults>>
    /\ LibraryUnchanged

(***************************************************************************)
(* The server's session loop with any peer: a program that writes frames   *)
(* of every message type on its connection, through send_message.          *)
(***************************************************************************)
MaxPeerFrames == 3

\* What a file already in the root directory may hold
ExistingFiles == {<<>>, <<1>>, <<1, 1, 1>>}

FileMessageTypes == {"FileOpen", "FileData", "FileClose"}

PeerFrames ==
    {FileOpenMessage(Rel(<<"a">>), 2)}
    \cup {FileDataMessage(file_id, 0, <<0>>, HashOf(<<0>>)) : file_id \in FileIds}
    \cup {FileCloseMessage(file_id, HashOf(<<0>>), NoStats) : file_id \in FileIds}
    \cup {Frame(type) : type \in MessageTypes \ FileMessageTypes}

PeerSend(s) ==
    /\ cli[s].state = "Ready"
    /\ cli[s].streams < MaxPeerFrames
    /\ \E message \in PeerFrames :
         LET r == send_message(cli[s], s, message, "ok")
         IN  /\ net' = net \cup r.sent
             /\ cli' = [cli EXCEPT ![s] = r.client]
    /\ UNCHANGED faults
    /\ ServerUnchanged

\* handle_session: the `_ =>` arm, for every payload that is no file message
ReceiveOther(s) ==
    /\ handler[s] = "running"
    /\ \E m \in Receivable(s) :
         /\ m.type \notin FileMessageTypes
         /\ net' = net \ {m}
         /\ fifo' = [fifo EXCEPT ![s] = @ /\ \A m2 \in Receivable(s) : m2.stream >= m.stream]
         /\ last' = [NoLast EXCEPT !.op = m.type, !.conn = s, !.ok = TRUE, !.msg = m,
                                   !.state = srv_sessions[s].state]
    /\ UNCHANGED <<cli, handler, srv_sessions, file_sessions, fs, opened, faults>>
    /\ LibraryUnchanged

SessionNext ==
    \/ \E s \in Sessions : Connect(s)
    \/ \E s \in Sessions : PeerSend(s)
    \/ \E s \in Sessions : ReceiveFileOpen(s)
    \/ \E s \in Sessions : ReceiveFileData(s)
    \/ \E s \in Sessions : ReceiveFileClose(s)
    \/ \E s \in Sessions : ReceiveOther(s)
    \/ \E s \in Sessions : ReceiveError(s)

(***************************************************************************)
(* Two connections, each with a peer that writes file messages: any of    *)
(* them may name a file_id the server gave to the other's FileOpen.        *)
(***************************************************************************)
MaxIsolationFrames == 2

IsolationSend(s) ==
    /\ cli[s].state = "Ready"
    /\ cli[s].streams < MaxIsolationFrames
    /\ \E message \in {m \in PeerFrames : m.type \in FileMessageTypes} :
         LET r == send_message(cli[s], s, message, "ok")
         IN  /\ net' = net \cup r.sent
             /\ cli' = [cli EXCEPT ![s] = r.client]
    /\ UNCHANGED faults
    /\ ServerUnchanged

IsolationNext ==
    \/ \E s \in Sessions : Connect(s)
    \/ \E s \in Sessions : IsolationSend(s)
    \/ \E s \in Sessions : ReceiveFileOpen(s)
    \/ \E s \in Sessions : ReceiveFileData(s)
    \/ \E s \in Sessions : ReceiveFileClose(s)

(***************************************************************************)
(* The frame codec on its own: frames with valid fields are serialized,    *)
(* byte strings arrive from the network, and either is deserialized.       *)
(***************************************************************************)
PayloadCeiling == 16 * 1024 * 1024

Booleans == {TRUE, FALSE}

AllFlags ==
    [eom : Booleans, compressed : Booleans, encrypted : Booleans,
     requires_ack : Booleans, high_priority : Booleans]

Payloads == {<<>>, BlobOf(<<0>>), BlobOf(<<1, 0, 255>>), Run(70000, 9)}

SequenceNumbers == {0, 1, 258, 2147483647}

Timestamps == {0, 1730000000}

Tags == {Run(TagSize, 0), BCat(Run(1, 1), Run(TagSize - 1, 0)), Run(TagSize, 255)}

\* The frames whose fields are valid
ValidFrames ==
    { [version |-> PROTOCOL_VERSION, message_type |-> t, flags |-> f,
       length |-> BLen(p), sequence |-> n, timestamp |-> ts, payload |-> p, hmac |-> h] :
        t \in MessageTypes, f \in AllFlags, p \in Payloads,
        n \in SequenceNumbers, ts \in Timestamps, h \in Tags }

\* The 24 header bytes as a peer may write them
RawHeader(version, type, flags, length) ==
    BlobOf(<<version, type>> \o to_be_bytes(flags, 2) \o to_be_bytes(length, 4)
           \o to_be_bytes(0, 8) \o to_be_bytes(0, 8))

RawVersions == {0, 1, 2}
RawTypes == {0, 2, 8}
RawFlags == {0, 4, 31, 32, 32772, 65535}
RawLengths == {0, 1, 8, PayloadCeiling, PayloadCeiling + 1}
RawBodies == {0, 8, 24, 31, 32, 33, 40, PayloadCeiling + TagSize, PayloadCeiling + 1 + TagSize}
RawCuts == {0, 1, 23, 24, 47, 48, 55, 56, 2147483647}

\* Byte strings that arrive: a header, the bytes after it, cut off somewhere
RawInputs ==
    { BTake(BCat(RawHeader(v, t, f, l), Run(body, 7)), cut) :
        v \in RawVersions, t \in RawTypes, f \in RawFlags, l \in RawLengths,
        body \in RawBodies, cut \in RawCuts }

NoFrame == [version |-> 0]

NoResult == [ok |-> FALSE, error |-> "none", why |-> "none"]

CodecNew == [op |-> "none", frame |-> NoFrame, wire |-> <<>>, result |-> NoResult]

CodecSerialize ==
    /\ codec.op = "none"
    /\ \E frame \in ValidFrames :
         codec' = [op |-> "serialized", frame |-> frame,
                   wire |-> FrameSerialize(frame), result |-> NoResult]
    /\ UNCHANGED <<tr, audit, dl, crypto, locks>>
    /\ ProgramUnchanged

CodecArrive ==
    /\ codec.op = "none"
    /\ \E data \in RawInputs :
         codec' = [op |-> "arrived", frame |-> NoFrame, wire |-> data,
                   result |-> NoResult]
    /\ UNCHANGED <<tr, audit, dl, crypto, locks>>
    /\ ProgramUnchanged

CodecDeserialize ==
    /\ codec.op \in {"serialized", "arrived"}
    /\ codec' = [codec EXCEPT !.op = "deserialized",
                              !.result = FrameDeserialize(codec.wire)]
    /\ UNCHANGED <<tr, audit, dl, crypto, locks>>
    /\ ProgramUnchanged

CodecNext == CodecSerialize \/ CodecArrive \/ CodecDeserialize

(***************************************************************************)
(* The conversions of MessageType and Flags on their own: every byte is    *)
(* converted to a MessageType, every Flags to u16 and back, every u16 of   *)
(* a sample to Flags.                                                      *)
(***************************************************************************)
U8 == 0 .. 255

U16Samples == {0, 1, 16, 31, 32, 1024, 32768, 65535}

ConvertByte ==
    /\ codec.op = "none"
    /\ \E value \in U8 :
         codec' = [op |-> "try_from", frame |-> NoFrame, wire |-> BlobOf(<<value>>),
                   result |-> MessageTypeTryFrom(value)]
    /\ UNCHANGED <<tr, audit, dl, crypto, locks>>
    /\ ProgramUnchanged

ConvertFlags ==
    /\ codec.op = "none"
    /\ \E flags \in AllFlags :
         codec' = [op |-> "flags", frame |-> [version |-> 0, flags |-> flags],
                   wire |-> <<>>,
                   result |-> [ok |-> TRUE, bits |-> FlagsToU16(flags),
                               flags |-> FlagsFromU16(FlagsToU16(flags))]]
    /\ UNCHANGED <<tr, audit, dl, crypto, locks>>
    /\ ProgramUnchanged

ConvertU16 ==
    /\ codec.op = "none"
    /\ \E value \in U16Samples :
         codec' = [op |-> "from_u16", frame |-> NoFrame,
                   wire |-> BlobOf(to_be_bytes(value, 2)),
                   result |-> [ok |-> TRUE, bits |-> FlagsToU16(FlagsFromU16(value)),
                               flags |-> FlagsFromU16(value)]]
    /\ UNCHANGED <<tr, audit, dl, crypto, locks>>
    /\ ProgramUnchanged

ConversionNext == ConvertByte \/ ConvertFlags \/ ConvertU16

(***************************************************************************)
(* upload_file on its own, over a transport that may fail several sends;   *)
(* the frames it writes stay in net.                                       *)
(***************************************************************************)
MaxSendFaults == 4

MaxChunkSize == 2

UploadNext ==
    \/ \E s \in Sessions : Connect(s)
    \/ \E s \in Sessions : UploadStart(s)
    \/ \E s \in Sessions : ReadChunk(s)
    \/ \E s \in Sessions : SendChunk(s)
    \/ \E s \in Sessions : SendClose(s)

(***************************************************************************)
(* The size check of handle_file_open under the values --max-file-size may *)
(* take.  Here every size is counted in GiB.                               *)
(***************************************************************************)
MAX_FILE_SIZE == 100

\* --max-file-size: the default of 1073741824, the protocol's maximum, more
CliSizes == {1, MAX_FILE_SIZE, 2 * MAX_FILE_SIZE}

DeclaredSizes == {0, 1, 2, MAX_FILE_SIZE, MAX_FILE_SIZE + 1, 2 * MAX_FILE_SIZE,
                  2 * MAX_FILE_SIZE + 1}

\* A peer writes a FileOpen that declares some size
PeerOpen(s) ==
    /\ cli[s].state = "Ready"
    /\ cli[s].streams < MaxPeerFrames
    /\ \E size \in DeclaredSizes :
         LET r == send_message(cli[s], s, FileOpenMessage(Rel(<<"a">>), size), "ok")
         IN  /\ net' = net \cup r.sent
             /\ cli' = [cli EXCEPT ![s] = r.client]
    /\ UNCHANGED faults
    /\ ServerUnchanged

LimitNext ==
    \/ \E s \in Sessions : Connect(s)
    \/ \E s \in Sessions : PeerOpen(s)
    \/ \E s \in Sessions : ReceiveFileOpen(s)
    \/ \E s \in Sessions : ReceiveError(s)

(***************************************************************************)
(* lsftp-core audit: AuditEvent and AuditLogger.  Option<T> is a sequence  *)
(* of no or one value, a string is its bytes, the metadata map is its set  *)
(* of entries.  stage, field and emitted are history: the last operation   *)
(* before a verification, the field changed last, and the entries log_event*)
(* has handed to each destination.                                         *)
(***************************************************************************)
MaxWithCalls == 1

None == <<>>

Some(value) == <<value>>

AuditActions ==
    <<"Authentication", "FileUpload", "FileDownload", "FileDelete", "PolicyChange",
      "SessionStart", "SessionEnd", "ConfigChange", "SecurityEvent", "SystemEvent">>

AuditResults == <<"Success", "Failure", "Denied", "InProgress">>

\* `event.action as u8`, `event.result as u8`
Discriminant(variants, v) == (CHOOSE i \in DOMAIN variants : variants[i] = v) - 1

Uuids == {[i \in 1 .. 16 |-> 1], [i \in 1 .. 16 |-> 2]}

Digests == {[i \in 1 .. 32 |-> 7], [i \in 1 .. 32 |-> 8]}

Strings == {<<97>>, <<98>>}

\* AuditEvent::new
AuditEventNew(action, result, timestamp, event_id) ==
    [timestamp |-> timestamp, event_id |-> event_id, user_id |-> None,
     hardware_id |-> None, action |-> action, file_path |-> None, file_hash |-> None,
     source_ip |-> None, session_id |-> None, bytes_transferred |-> None,
     duration_ms |-> None, result |-> result, error_code |-> None, metadata |-> {},
     signature |-> None]

\* The values a field of an AuditEvent may take
FieldValues(field) ==
    CASE field = "timestamp" -> {1700000000, 1700000001}
      [] field = "event_id" -> Uuids
      [] field = "action" -> {AuditActions[i] : i \in DOMAIN AuditActions}
      [] field = "result" -> {AuditResults[i] : i \in DOMAIN AuditResults}
      [] field \in {"user_id", "hardware_id", "file_path", "source_ip", "error_code"}
           -> {None} \cup {Some(v) : v \in Strings}
      [] field = "file_hash" -> {None} \cup {Some(v) : v \in Digests}
      [] field = "session_id" -> {None} \cup {Some(v) : v \in Uuids}
      [] field \in {"bytes_transferred", "duration_ms"} -> {None, Some(5), Some(3145728)}
      [] field = "metadata" -> {{}, {<<(<<97>>), (<<98>>)>>}, {<<(<<97>>), (<<97>>)>>}}

\* with_user_id, with_hardware_id, with_file_path, with_file_hash,
\* with_source_ip, with_session_id, with_bytes_transferred, with_duration,
\* with_error_code, with_metadata
WithFields ==
    {"user_id", "hardware_id", "file_path", "file_hash", "source_ip", "session_id",
     "bytes_transferred", "duration_ms", "error_code", "metadata"}

\* The fields of the canonical serialization
CanonicalFields ==
    {"timestamp", "event_id", "action", "result", "user_id", "hardware_id",
     "session_id", "file_path", "file_hash", "bytes_transferred", "duration_ms",
     "error_code", "metadata"}

\* CryptoSuite::hash, a collision-free digest: equal exactly for equal inputs
crypto_hash(data) == [digest_of |-> data]

\* the bytes of an Option<String> or Option<[u8; 32]> if it is Some
IfSome(option) == IF option = None THEN <<>> ELSE option[1]

\* AuditLogger::create_signature_data
create_signature_data(event) ==
    to_be_bytes(event.timestamp, 8)
    \o event.event_id
    \o IfSome(event.user_id)
    \o IfSome(event.hardware_id)
    \o <<Discriminant(AuditActions, event.action)>>
    \o <<Discriminant(AuditResults, event.result)>>
    \o IfSome(event.file_path)
    \o IfSome(event.file_hash)

\* AuditLogger::sign_event
sign_event(config, event) ==
    IF ~config.audit_log_signing THEN event
    ELSE [event EXCEPT !.signature = Some(crypto_hash(create_signature_data(event)))]

\* AuditLogger::verify_event_signature
verify_event_signature(event) ==
    IF event.signature = None THEN FALSE
    ELSE crypto_hash(create_signature_data(event)) = event.signature[1]

\* get_severity with the Success arm of Authentication falling to the default
get_severity_default(event) ==
    CASE event.result = "Success" ->
           (CASE event.action = "SecurityEvent" -> "Warning"
              [] OTHER -> "Debug")
      [] event.result = "Failure" ->
           (CASE event.action = "SecurityEvent" -> "Critical"
              [] event.action = "Authentication" -> "Error"
              [] OTHER -> "Warning")
      [] event.result = "Denied" -> "Warning"
      [] event.result = "InProgress" -> "Info"

\* AuditLogger::get_severity
get_severity(event) ==
    CASE event.result = "Success" ->
           (CASE event.action = "SecurityEvent" -> "Warning"
              [] event.action = "Authentication" -> "Info"
              [] OTHER -> "Debug")
      [] event.result = "Failure" ->
           (CASE event.action = "SecurityEvent" -> "Critical"
              [] event.action = "Authentication" -> "Error"
              [] OTHER -> "Warning")
      [] event.result = "Denied" -> "Warning"
      [] event.result = "InProgress" -> "Info"

\* AuditLogger::create_log_entry: the keys of the JSON object that depend
\* on the event
create_log_entry(event) ==
    [timestamp |-> event.timestamp, event_id |-> event.event_id,
     event_type |-> event.action, severity |-> get_severity(event),
     user_id |-> event.user_id, source_ip |-> event.source_ip,
     hardware_id |-> event.hardware_id, file_path |-> event.file_path,
     bytes_transferred |-> event.bytes_transferred, duration_ms |-> event.duration_ms,
     result |-> event.result, error_code |-> event.error_code,
     session_id |-> event.session_id, metadata |-> event.metadata]

\* AuditLogger::log_event: what it hands to stdout, write_to_audit_file,
\* send_to_syslog and push_to_siem
RECURSIVE Destinations(_, _)
Destinations(log_destinations, entry) ==
    IF log_destinations = <<>> THEN <<>>
    ELSE (IF Head(log_destinations) \in {"stdout", "audit_file", "syslog"}
          THEN <<[sink |-> Head(log_destinations), entry |-> entry]>>
          ELSE <<>>)
         \o Destinations(Tail(log_destinations), entry)

log_event_no_siem(config, event) ==
    Destinations(config.log_destinations, create_log_entry(event))

log_event(config, event) ==
    LET log_entry == create_log_entry(event)
    IN  Destinations(config.log_destinations, log_entry)
        \o (IF event.result = "Failure" \/ event.action = "SecurityEvent"
            THEN <<[sink |-> "siem", entry |-> log_entry]>>
            ELSE <<>>)

AuditConfigs ==
    [audit_log_signing : {TRUE, FALSE},
     log_destinations : {<<"stdout", "audit_file">>, <<"syslog", "other">>}]

NoEvent == AuditEventNew("SystemEvent", "InProgress", 0, <<>>)

AuditNew ==
    [op |-> "none", config |-> [audit_log_signing |-> FALSE, log_destinations |-> <<>>],
     event |-> NoEvent, with_calls |-> 0, stage |-> "none", field |-> "none",
     verified |-> FALSE, emitted |-> <<>>]

\* AuditLogger::new
AuditLoggerNew ==
    /\ audit.op = "none"
    /\ \E config \in AuditConfigs : audit' = [audit EXCEPT !.op = "ready", !.config = config]
    /\ UNCHANGED <<codec, tr, dl, crypto, locks>>
    /\ ProgramUnchanged

\* AuditEvent::new
AuditCreate ==
    /\ audit.op = "ready"
    /\ \E action \in FieldValues("action"), result \in FieldValues("result") :
         audit' = [audit EXCEPT !.op = "event",
                     !.event = AuditEventNew(action, result, 1700000000,
                                             [i \in 1 .. 16 |-> 1])]
    /\ UNCHANGED <<codec, tr, dl, crypto, locks>>
    /\ ProgramUnchanged

\* AuditEvent::with_...
AuditWith ==
    /\ audit.op = "event"
    /\ audit.with_calls < MaxWithCalls
    /\ \E field \in WithFields : \E value \in FieldValues(field) :
         /\ value # AuditEventNew("SystemEvent", "Success", 0, <<>>)[field]
         /\ audit' = [audit EXCEPT !.with_calls = @ + 1, !.event[field] = value]
    /\ UNCHANGED <<codec, tr, dl, crypto, locks>>
    /\ ProgramUnchanged

\* AuditLogger::sign_event
AuditSign ==
    /\ audit.op = "event"
    /\ audit' = [audit EXCEPT !.op = "signed",
                              !.event = sign_event(audit.config, audit.event)]
    /\ UNCHANGED <<codec, tr, dl, crypto, locks>>
    /\ ProgramUnchanged

\* One field of a signed event is changed (AuditEvent's fields are pub)
AuditChange ==
    /\ audit.op = "signed"
    /\ audit.event.signature # None
    /\ \E field \in CanonicalFields : \E value \in FieldValues(field) :
         /\ value # audit.event[field]
         /\ audit' = [audit EXCEPT !.op = "changed", !.field = field,
                                   !.event[field] = value]
    /\ UNCHANGED <<codec, tr, dl, crypto, locks>>
    /\ ProgramUnchanged

\* AuditLogger::verify_event_signature
AuditVerify ==
    /\ audit.op \in {"event", "signed", "changed"}
    /\ audit' = [audit EXCEPT !.op = "verified", !.stage = audit.op,
                              !.verified = verify_event_signature(audit.event)]
    /\ UNCHANGED <<codec, tr, dl, crypto, locks>>
    /\ ProgramUnchanged

\* AuditLogger::log_event
AuditLog ==
    /\ audit.op \in {"event", "signed"}
    /\ audit' = [audit EXCEPT !.op = "logged", !.stage = audit.op,
                              !.emitted = @ \o log_event(audit.config, audit.event)]
    /\ UNCHANGED <<codec, tr, dl, crypto, locks>>
    /\ ProgramUnchanged

AuditNext ==
    \/ AuditLoggerNew
    \/ AuditCreate
    \/ AuditWith
    \/ AuditSign
    \/ AuditChange
    \/ AuditVerify
    \/ AuditLog

(***************************************************************************)
(* lsftp-client download_file, with a sender that writes FileData and      *)
(* FileClose frames.  sender is the sender's running hasher; queue holds    *)
(* the frames receive_message will return, in order; last is history: the   *)
(* frame handled last, the hasher before it, and whether it was accepted.   *)
(***************************************************************************)
MaxDownloadFrames == 3

DownloadChunks == {<<0>>, <<1>>, <<0, 1>>}

NoReceived ==
    [type |-> "none", data |-> <<>>, hash |-> ZeroHash, hasher_before |-> HasherNew,
     accepted |-> FALSE]

DownloadNew ==
    [pc |-> "idle", result |-> "none", file |-> <<>>, hasher |-> HasherNew,
     total_bytes |-> 0, chunks_count |-> 0,
     sender |-> HasherNew, sent |-> 0, queue |-> <<>>, last |-> NoReceived]

\* download_file up to the creation of the local file
DownloadStart ==
    /\ dl.pc = "idle"
    /\ dl.result = "none"
    /\ dl' = [dl EXCEPT !.pc = "receiving"]
    /\ UNCHANGED <<codec, tr, audit, crypto, locks>>
    /\ ProgramUnchanged

\* The sender writes a FileData: with the hash upload_file gives it (of all
\* bytes so far), with the hash of the chunk alone, or with a wrong hash
SenderData ==
    /\ dl.pc = "receiving"
    /\ dl.sent < MaxDownloadFrames
    /\ \E data \in DownloadChunks, kind \in {"cumulative", "single", "wrong"} :
         LET hasher == HasherUpdate(dl.sender, data)
             chunk_hash == CASE kind = "cumulative" -> HasherFinalize(hasher)
                             [] kind = "single" -> HashOf(data)
                             [] kind = "wrong" -> ZeroHash
         IN  dl' = [dl EXCEPT !.sender = hasher, !.sent = @ + 1,
                              !.queue = Append(@, FileDataMessage("u1", dl.sent, data,
                                                                  chunk_hash))]
    /\ UNCHANGED <<codec, tr, audit, crypto, locks>>
    /\ ProgramUnchanged

\* The sender writes the FileClose: with the hash of all bytes, or a wrong one
SenderClose ==
    /\ dl.pc = "receiving"
    /\ dl.sent < MaxDownloadFrames
    /\ \A i \in 1 .. Len(dl.queue) : dl.queue[i].type # "FileClose"
    /\ \E final_hash \in {HasherFinalize(dl.sender), ZeroHash} :
         dl' = [dl EXCEPT !.sent = @ + 1,
                          !.queue = Append(@, FileCloseMessage("u1", final_hash, NoStats))]
    /\ UNCHANGED <<codec, tr, audit, crypto, locks>>
    /\ ProgramUnchanged

\* download_file: one pass of the loop, on the frame receive_message returns
DownloadReceive ==
    /\ dl.pc = "receiving"
    /\ dl.queue # <<>>
    /\ LET payload == Head(dl.queue)
           d == [dl EXCEPT !.queue = Tail(@),
                           !.last = [type |-> payload.type, data |-> payload.data,
                                     hash |-> IF payload.type = "FileData"
                                              THEN payload.chunk_hash
                                              ELSE payload.final_hash,
                                     hasher_before |-> dl.hasher, accepted |-> FALSE]]
       IN  dl' = IF payload.type = "FileData"
                 THEN IF HashOf(payload.data) # payload.chunk_hash
                      THEN [d EXCEPT !.pc = "idle", !.result = "File"]
                      ELSE [d EXCEPT !.file = @ \o payload.data,
                                     !.hasher = HasherUpdate(@, payload.data),
                                     !.total_bytes = @ + Len(payload.data),
                                     !.chunks_count = @ + 1,
                                     !.last.accepted = TRUE]
                 ELSE IF HasherFinalize(dl.hasher) # payload.final_hash
                      THEN [d EXCEPT !.pc = "idle", !.result = "File"]
                      ELSE [d EXCEPT !.pc = "idle", !.result = "Ok",
                                     !.last.accepted = TRUE]
    /\ UNCHANGED <<codec, tr, audit, crypto, locks>>
    /\ ProgramUnchanged

\* download_file: receive_message returns Err (the connection is gone)
DownloadReceiveError ==
    /\ dl.pc = "receiving"
    /\ dl.queue = <<>>
    /\ dl' = [dl EXCEPT !.pc = "idle", !.result = "Transport"]
    /\ UNCHANGED <<codec, tr, audit, crypto, locks>>
    /\ ProgramUnchanged

DownloadNext ==
    \/ DownloadStart
    \/ SenderData
    \/ SenderClose
    \/ DownloadReceive
    \/ DownloadReceiveError

(***************************************************************************)
(* lsftp-core transport on its own: one QuicTransport and one              *)
(* QuicServerTransport, their public operations called in any order.       *)
(* prev, sent_types, received_types, seen, highest and rx are history: the *)
(* state before the last state-setting call, the message types sent and    *)
(* received, the sequence numbers received, and the last receive_message.  *)
(***************************************************************************)
MaxApiMessages == 2

ServerSessionIds == {"a1", "a2"}     \* the values Uuid::new_v4() may return

\* postcard::to_allocvec and postcard::from_bytes, for a payload of a kind
\* with one value in it
to_allocvec(payload) == BlobOf(<<MessageTypeAsU8(payload.kind), payload.value>>)

from_bytes(type, d) ==
    IF BLen(d) = 2 /\ BAt(d, 0) = MessageTypeAsU8(type)
    THEN [ok |-> TRUE, value |-> [kind |-> type, value |-> BAt(d, 1)]]
    ELSE [ok |-> FALSE, value |-> "Serialization"]

\* Message::new(type, Some(payload)).frame, as a peer that numbers its
\* frames sends it
PeerFrame(type, sequence) ==
    [FrameNew(type, to_allocvec([kind |-> type, value |-> 1]), 0)
       EXCEPT !.sequence = sequence]

PeerSequences == {5, 2000}

\* What read_to_end may return: frames of a peer, a frame whose payload
\* does not parse, and bytes that are no frame
PeerWire ==
    { FrameSerialize(PeerFrame(type, n)) :
        type \in {"Handshake"}, n \in PeerSequences }
    \cup { FrameSerialize(FrameNew("Heartbeat", <<>>, 0)), Run(10, 0) }

\* QuicTransport::receive_message on the bytes read from the stream
receive_message(data) ==
    LET frame == FrameDeserialize(data)
    IN  IF ~frame.ok THEN [ok |-> FALSE, error |-> "Protocol"]
        ELSE LET payload == from_bytes(frame.frame.message_type, frame.frame.payload)
             IN  IF ~payload.ok THEN [ok |-> FALSE, error |-> "Serialization"]
                 ELSE [ok |-> TRUE, frame |-> frame.frame, payload |-> payload.value]

NoRx == [delivered |-> FALSE, replay |-> FALSE, counted |-> FALSE, sequence |-> 0]

TransportNew ==
    [endpoint |-> FALSE, connection |-> FALSE, open |-> FALSE, pc |-> "idle",
     state |-> "Initial", prev |-> "Initial",
     messages_sent |-> 0, messages_received |-> 0, errors |-> 0,
     sent_types |-> {}, received_types |-> {},
     seen |-> {}, highest |-> -1, rx |-> NoRx,
     started |-> FALSE, sessions |-> <<>>]

SetState(t, state) == [t EXCEPT !.prev = t.state, !.state = state]

\* QuicTransport::initialize
TransportInitialize ==
    /\ tr.pc = "idle"
    /\ tr' = [SetState(tr, "Initial") EXCEPT !.endpoint = TRUE]
    /\ UNCHANGED <<codec, audit, dl, crypto, locks>>
    /\ ProgramUnchanged

\* QuicTransport::connect up to the sleep
TransportConnect ==
    /\ tr.pc = "idle"
    /\ tr.endpoint
    /\ tr' = [SetState(tr, "Handshaking") EXCEPT !.connection = TRUE, !.open = TRUE,
                                                 !.pc = "handshaking"]
    /\ UNCHANGED <<codec, audit, dl, crypto, locks>>
    /\ ProgramUnchanged

\* QuicTransport::connect after the sleep
TransportConnected ==
    /\ tr.pc = "handshaking"
    /\ tr' = [SetState(tr, "Ready") EXCEPT !.pc = "idle"]
    /\ UNCHANGED <<codec, audit, dl, crypto, locks>>
    /\ ProgramUnchanged

\* QuicTransport::send_message returning Ok
TransportSend ==
    /\ tr.pc = "idle"
    /\ tr.connection /\ tr.open
    /\ tr.messages_sent < MaxApiMessages
    /\ \E type \in {"Handshake", "FileOpen"} :
         tr' = [tr EXCEPT !.messages_sent = @ + 1, !.sent_types = @ \cup {type}]
    /\ UNCHANGED <<codec, audit, dl, crypto, locks>>
    /\ ProgramUnchanged

\* QuicTransport::receive_message, on a stream the peer opened
TransportReceive ==
    /\ tr.pc = "idle"
    /\ tr.connection /\ tr.open
    /\ tr.messages_received < MaxApiMessages
    /\ \E data \in PeerWire :
         LET r == receive_message(data)
         IN  tr' = IF ~r.ok THEN [tr EXCEPT !.rx = NoRx]
                   ELSE [tr EXCEPT
                           !.messages_received = @ + 1,
                           !.received_types = @ \cup {r.frame.message_type},
                           !.seen = @ \cup {r.frame.sequence},
                           !.highest = IF r.frame.sequence > @ THEN r.frame.sequence ELSE @,
                           !.rx = [delivered |-> TRUE,
                                   replay |-> \/ r.frame.sequence \in tr.seen
                                              \/ r.frame.sequence < tr.highest - 2^10,
                                   counted |-> FALSE,
                                   sequence |-> r.frame.sequence]]
    /\ UNCHANGED <<codec, audit, dl, crypto, locks>>
    /\ ProgramUnchanged

\* QuicTransport::close
TransportClose ==
    /\ tr.pc = "idle"
    /\ tr' = [SetState(tr, "Closed") EXCEPT !.open = FALSE]
    /\ UNCHANGED <<codec, audit, dl, crypto, locks>>
    /\ ProgramUnchanged

\* QuicServerTransport::start
ServerStart ==
    /\ ~tr.started
    /\ tr' = [tr EXCEPT !.started = TRUE]
    /\ UNCHANGED <<codec, audit, dl, crypto, locks>>
    /\ ProgramUnchanged

\* QuicServerTransport::accept_connection
AcceptConnection ==
    /\ tr.started
    /\ \E session_id \in ServerSessionIds :
         tr' = [tr EXCEPT !.sessions =
                  MapInsert(@, session_id,
                            [state |-> "Handshaking", prev |-> "Handshaking",
                             messages_sent |-> 0, messages_received |-> 0])]
    /\ UNCHANGED <<codec, audit, dl, crypto, locks>>
    /\ ProgramUnchanged

\* QuicServerTransport::handle_session
HandleSession ==
    /\ \E session_id \in DOMAIN tr.sessions :
         tr' = [tr EXCEPT !.sessions[session_id] = SetState(@, "Ready")]
    /\ UNCHANGED <<codec, audit, dl, crypto, locks>>
    /\ ProgramUnchanged

\* QuicServerTransport::close_session
CloseSession ==
    /\ \E session_id \in DOMAIN tr.sessions :
         tr' = [tr EXCEPT !.sessions[session_id] = SetState(@, "Closed")]
    /\ UNCHANGED <<codec, audit, dl, crypto, locks>>
    /\ ProgramUnchanged

TransportNext ==
    \/ TransportInitialize
    \/ TransportConnect
    \/ TransportConnected
    \/ TransportSend
    \/ TransportReceive
    \/ TransportClose
    \/ ServerStart
    \/ AcceptConnection
    \/ HandleSession
    \/ CloseSession

(***************************************************************************)
(* lsftp-core crypto: CryptoSuite::sign and CryptoSuite::verify.           *)
(* A byte string is a list of pieces, each the bytes from..to-1 of a named *)
(* string: a signature or a public key made by ring or oqs for a key pair  *)
(* and a message, or bytes that are neither.  Two byte strings are equal   *)
(* exactly when their lists are.  ring and oqs accept a signature exactly  *)
(* when it is the whole signature made for that message by the key pair of *)
(* the public key.                                                         *)
(***************************************************************************)
MaxJunk == 100

SignatureAlgorithms == {"Ed25519", "HybridEd25519MlDsa65", "MlDsa65", "MlDsa87"}

KeyPairs == {1, 2}                   \* the key pairs a generator may return

SignedMessages == {"m1", "m2"}

Whole(name, n) == IF n = 0 THEN <<>> ELSE <<[of |-> name, from |-> 0, to |-> n]>>

RECURSIVE PLen(_)
PLen(d) == IF d = <<>> THEN 0 ELSE Head(d).to - Head(d).from + PLen(Tail(d))

\* Vec::extend_from_slice
PCat(d1, d2) ==
    IF d1 = <<>> THEN d2
    ELSE IF d2 = <<>> THEN d1
    ELSE IF d1[Len(d1)].of = Head(d2).of /\ d1[Len(d1)].to = Head(d2).from
    THEN SubSeq(d1, 1, Len(d1) - 1)
           \o <<[Head(d2) EXCEPT !.from = d1[Len(d1)].from]>> \o Tail(d2)
    ELSE d1 \o d2

\* &data[..k], for k <= data.len()
RECURSIVE PTake(_, _)
PTake(d, k) ==
    IF k = 0 \/ d = <<>> THEN <<>>
    ELSE LET n == Head(d).to - Head(d).from
         IN  IF n <= k THEN <<Head(d)>> \o PTake(Tail(d), k - n)
             ELSE <<[Head(d) EXCEPT !.to = Head(d).from + k]>>

\* &data[k..], for k <= data.len()
RECURSIVE PDrop(_, _)
PDrop(d, k) ==
    IF k = 0 \/ d = <<>> THEN d
    ELSE LET n == Head(d).to - Head(d).from
         IN  IF n <= k THEN PDrop(Tail(d), k - n)
             ELSE <<[Head(d) EXCEPT !.from = Head(d).from + k]>> \o Tail(d)

Named(kind, scheme, key, message) ==
    [kind |-> kind, scheme |-> scheme, key |-> key, message |-> message]

Junk(n) == Whole(Named("junk", "none", 0, "none"), n)

\* ring: an Ed25519 signature is 64 bytes, a public key 32
EdSignature(key, message) == Whole(Named("signature", "Ed25519", key, message), 64)

EdPublicKey(key) == Whole(Named("public_key", "Ed25519", key, "none"), 32)

\* ring::signature::UnparsedPublicKey::verify(..).is_ok()
ring_verify(message, signature, public_key) ==
    \E key \in KeyPairs :
        public_key = EdPublicKey(key) /\ signature = EdSignature(key, message)

\* oqs::sig::Sig: length_signature and length_public_key of a scheme
length_signature(scheme) == IF scheme = "Dilithium3" THEN 3293 ELSE 4595

length_public_key(scheme) == IF scheme = "Dilithium3" THEN 1952 ELSE 2592

OqsSignature(scheme, key, message) ==
    Whole(Named("signature", scheme, key, message), length_signature(scheme))

OqsPublicKey(scheme, key) ==
    Whole(Named("public_key", scheme, key, "none"), length_public_key(scheme))

\* The match on self.signature that starts perform_post_quantum_signature and
\* verify_post_quantum_signature
OqsScheme(algorithm) ==
    CASE algorithm = "MlDsa65" -> [ok |-> TRUE, scheme |-> "Dilithium3"]
      [] algorithm = "MlDsa87" -> [ok |-> TRUE, scheme |-> "Dilithium5"]
      [] OTHER -> [ok |-> FALSE, scheme |-> "none"]

NoSignature == [ok |-> FALSE, signature |-> <<>>, public_key |-> <<>>, algorithm |-> "none"]

perform_classical_signature(message, key) ==
    [ok |-> TRUE, signature |-> EdSignature(key, message),
     public_key |-> EdPublicKey(key), algorithm |-> "Ed25519"]

perform_post_quantum_signature(algorithm, message, key) ==
    LET sig == OqsScheme(algorithm)
    IN  IF ~sig.ok THEN NoSignature
        ELSE [ok |-> TRUE, signature |-> OqsSignature(sig.scheme, key, message),
              public_key |-> OqsPublicKey(sig.scheme, key), algorithm |-> algorithm]

\* CryptoSuite::sign; classical and pq are the key pairs the two generators
\* return
sign(algorithm, message, classical, pq) ==
    CASE algorithm = "Ed25519" ->
           [perform_classical_signature(message, classical) EXCEPT !.algorithm = algorithm]
      [] algorithm = "HybridEd25519MlDsa65" ->
           LET classical_sig == perform_classical_signature(message, classical)
               pq_sig == perform_post_quantum_signature(algorithm, message, pq)
           IN  IF ~pq_sig.ok THEN NoSignature
               ELSE [ok |-> TRUE,
                     signature |-> PCat(classical_sig.signature, pq_sig.signature),
                     public_key |-> PCat(classical_sig.public_key, pq_sig.public_key),
                     algorithm |-> algorithm]
      [] OTHER -> perform_post_quantum_signature(algorithm, message, pq)

verify_classical_signature(message, signature, public_key) ==
    IF ring_verify(message, signature, public_key) THEN "true" ELSE "false"

\* PublicKey::from_bytes wants the exact length, Signature::from_bytes at
\* most the scheme's length
verify_post_quantum_signature(algorithm, message, signature, public_key) ==
    LET sig == OqsScheme(algorithm)
    IN  IF ~sig.ok THEN "Crypto"
        ELSE IF PLen(public_key) # length_public_key(sig.scheme) THEN "Crypto"
        ELSE IF PLen(signature) > length_signature(sig.scheme) THEN "Crypto"
        ELSE IF \E key \in KeyPairs :
                   /\ public_key = OqsPublicKey(sig.scheme, key)
                   /\ signature = OqsSignature(sig.scheme, key, message)
        THEN "true" ELSE "false"

\* usize arithmetic: a build with overflow checks panics, one without wraps.
\* Every length here is far below the modulus, so a narrower usize wraps the
\* same way.
UsizeModulus == 2^30

usize_sub(a, b, overflow_checks) ==
    IF a >= b THEN [panic |-> FALSE, value |-> a - b]
    ELSE IF overflow_checks THEN [panic |-> TRUE, value |-> 0]
    ELSE [panic |-> FALSE, value |-> a - b + UsizeModulus]

usize_add(a, b, overflow_checks) ==
    IF a + b < UsizeModulus THEN [panic |-> FALSE, value |-> a + b]
    ELSE IF overflow_checks THEN [panic |-> TRUE, value |-> 0]
    ELSE [panic |-> FALSE, value |-> a + b - UsizeModulus]

\* The hybrid arm of CryptoSuite::verify
verify_hybrid(algorithm, message, signature, public_key, overflow_checks) ==
    LET classical_sig_len == 64
        pq_sig_len == usize_sub(PLen(signature), classical_sig_len, overflow_checks)
        sig_sum == usize_add(classical_sig_len, pq_sig_len.value, overflow_checks)
        classical_pubkey_len == 32
        pq_pubkey_len == usize_sub(PLen(public_key), classical_pubkey_len, overflow_checks)
        pubkey_sum == usize_add(classical_pubkey_len, pq_pubkey_len.value, overflow_checks)
    IN  IF pq_sig_len.panic \/ sig_sum.panic THEN "panic"
        ELSE IF PLen(signature) < sig_sum.value THEN "Crypto"
        ELSE IF classical_sig_len > PLen(signature) THEN "panic"
        ELSE IF pq_pubkey_len.panic \/ pubkey_sum.panic THEN "panic"
        ELSE IF PLen(public_key) < pubkey_sum.value THEN "Crypto"
        ELSE IF classical_pubkey_len > PLen(public_key) THEN "panic"
        ELSE LET classical_verified ==
                     verify_classical_signature(message,
                         PTake(signature, classical_sig_len),
                         PTake(public_key, classical_pubkey_len))
                 pq_verified ==
                     verify_post_quantum_signature(algorithm, message,
                         PDrop(signature, classical_sig_len),
                         PDrop(public_key, classical_pubkey_len))
             IN  IF pq_verified = "Crypto" THEN "Crypto"
                 ELSE IF classical_verified = "true" /\ pq_verified = "true"
                 THEN "true" ELSE "false"

\* CryptoSuite::verify: "true", "false", "Crypto" for Err, or "panic"
verify(algorithm, message, signature, public_key, overflow_checks) ==
    CASE algorithm = "Ed25519" ->
           IF ring_verify(message, signature, public_key) THEN "true" ELSE "false"
      [] algorithm = "HybridEd25519MlDsa65" ->
           verify_hybrid(algorithm, message, signature, public_key, overflow_checks)
      [] OTHER -> verify_post_quantum_signature(algorithm, message, signature, public_key)

\* The signatures and public keys a caller may hand to verify
ClassicalSignatures ==
    {EdSignature(key, message) : key \in KeyPairs, message \in SignedMessages}

PqSignatures ==
    {OqsSignature("Dilithium3", 1, message) : message \in SignedMessages}
    \cup {OqsSignature("Dilithium5", 1, "m1"), Junk(MaxJunk), <<>>}

SomeSignatures ==
    ClassicalSignatures
    \cup {PCat(c, p) : c \in ClassicalSignatures \cup {Junk(64)}, p \in PqSignatures}
    \cup (PqSignatures \ {<<>>})
    \cup {Junk(10), <<>>}

PqPublicKeys ==
    {OqsPublicKey("Dilithium3", 1), OqsPublicKey("Dilithium5", 1), Junk(MaxJunk), <<>>}

SomePublicKeys ==
    {EdPublicKey(key) : key \in KeyPairs}
    \cup {PCat(EdPublicKey(1), p) : p \in PqPublicKeys}
    \cup (PqPublicKeys \ {<<>>})
    \cup {Junk(10), <<>>}

NoVerify == [message |-> "none", signature |-> <<>>, public_key |-> <<>>,
             outcome |-> "none", of_sign |-> FALSE]

CryptoNew ==
    [op |-> "none", signature |-> "none", overflow_checks |-> FALSE,
     message |-> "none", signed |-> NoSignature, verified |-> NoVerify]

\* A CryptoSuite is built with one of the signature algorithms, in a build
\* with or without overflow checks
CryptoSuiteNew ==
    /\ crypto.op = "none"
    /\ \E algorithm \in SignatureAlgorithms, overflow_checks \in BOOLEAN :
         crypto' = [crypto EXCEPT !.op = "ready", !.signature = algorithm,
                                  !.overflow_checks = overflow_checks]
    /\ UNCHANGED <<codec, tr, audit, dl, locks>>
    /\ ProgramUnchanged

\* CryptoSuite::sign
CryptoSign ==
    /\ crypto.op = "ready"
    /\ \E message \in SignedMessages, classical \in KeyPairs, pq \in KeyPairs :
         crypto' = [crypto EXCEPT !.op = "signed", !.message = message,
                      !.signed = sign(crypto.signature, message, classical, pq)]
    /\ UNCHANGED <<codec, tr, audit, dl, locks>>
    /\ ProgramUnchanged

\* CryptoSuite::verify on what sign returned
CryptoVerifySigned ==
    /\ crypto.op = "signed"
    /\ crypto.signed.ok
    /\ crypto' = [crypto EXCEPT !.op = "verified",
                    !.verified = [message |-> crypto.message,
                                  signature |-> crypto.signed.signature,
                                  public_key |-> crypto.signed.public_key,
                                  outcome |-> verify(crypto.signature, crypto.message,
                                                     crypto.signed.signature,
                                                     crypto.signed.public_key,
                                                     crypto.overflow_checks),
                                  of_sign |-> TRUE]]
    /\ UNCHANGED <<codec, tr, audit, dl, locks>>
    /\ ProgramUnchanged

\* CryptoSuite::verify on bytes from elsewhere
CryptoVerify ==
    /\ crypto.op = "ready"
    /\ \E message \in SignedMessages, signature \in SomeSignatures,
          public_key \in SomePublicKeys :
         crypto' = [crypto EXCEPT !.op = "verified",
                      !.verified = [message |-> message, signature |-> signature,
                                    public_key |-> public_key,
                                    outcome |-> verify(crypto.signature, message, signature,
                                                       public_key, crypto.overflow_checks),
                                    of_sign |-> FALSE]]
    /\ UNCHANGED <<codec, tr, audit, dl, locks>>
    /\ ProgramUnchanged

CryptoNext ==
    \/ CryptoSuiteNew
    \/ CryptoSign
    \/ CryptoVerifySigned
    \/ CryptoVerify

(***************************************************************************)
(* The locks of lsftp-server: the file-session table (LsftpServer's        *)
(* file_sessions) and the transport's session table (QuicServerTransport's *)
(* sessions), both tokio RwLocks taken for writing.  Two handle_session    *)
(* tasks and the accept loop run concurrently.  A write() call queues the  *)
(* task; the lock is granted to the head of the queue when it is free.     *)
(***************************************************************************)
MaxHandled == 2

MaxAccepts == 1

Handlers == {"h1", "h2"}

LockTasks == Handlers \cup {"accept"}

LockNames == {"file_sessions", "sessions"}

\* A handler that takes the transport's lock first when it handles FileClose
FirstLockMixed(op) == IF op = "FileClose" THEN "sessions" ELSE "file_sessions"

\* The lock a handler takes first: `file_sessions.write().await`, held until
\* the handler returns
FirstLock(op) == "file_sessions"

\* and the one it takes while holding the first, inside send_to_session
SecondLock(op) == CHOOSE lock \in LockNames : lock # FirstLock(op)

LocksNew ==
    [pc |-> [t \in LockTasks |-> IF t = "accept" THEN "accepting" ELSE "receive"],
     op |-> [t \in LockTasks |-> "none"],
     done |-> [t \in LockTasks |-> 0],
     holder |-> [lock \in LockNames |-> "none"],
     queue |-> [lock \in LockNames |-> <<>>]]

\* RwLock::write is called: the task joins the queue of the lock
Requested(l, t, lock, pc) ==
    [l EXCEPT !.queue[lock] = Append(@, t), !.pc[t] = pc]

\* The write guard is dropped
Released(l, t, lock, pc) ==
    [l EXCEPT !.holder[lock] = "none", !.pc[t] = pc]

\* The lock the task is waiting for
WaitsFor(t) ==
    CASE locks.pc[t] = "wait_first" -> FirstLock(locks.op[t])
      [] locks.pc[t] = "wait_second" -> SecondLock(locks.op[t])
      [] locks.pc[t] = "wait_sessions" -> "sessions"
      [] OTHER -> "none"

LockStep(l) ==
    /\ locks' = l
    /\ UNCHANGED <<codec, tr, audit, dl, crypto>>
    /\ ProgramUnchanged

\* handle_session: receive_message returns a file message and its handler
\* runs up to its file_sessions.write()
HandlerReceive(t) ==
    /\ locks.pc[t] = "receive"
    /\ locks.done[t] < MaxHandled
    /\ \E op \in FileMessageTypes :
         LockStep(Requested([locks EXCEPT !.op[t] = op], t, FirstLock(op), "wait_first"))

\* handle_session ends: receive_message returns Err, or handle_file_open
\* refuses the size or the path before it takes a lock
HandlerEnds(t) ==
    /\ locks.pc[t] = "receive"
    /\ LockStep([locks EXCEPT !.pc[t] = "ended"])

\* The write() a task waits in returns its guard
LockGranted(t) ==
    /\ WaitsFor(t) # "none"
    /\ locks.holder[WaitsFor(t)] = "none"
    /\ Head(locks.queue[WaitsFor(t)]) = t
    /\ LockStep([locks EXCEPT
                   !.holder[WaitsFor(t)] = t,
                   !.queue[WaitsFor(t)] = Tail(@),
                   !.pc[t] = CASE locks.pc[t] = "wait_first" -> "hold_first"
                               [] locks.pc[t] = "wait_second" -> "hold_both"
                               [] OTHER -> "storing"])

\* The handler's work on the table, then its call of send_to_session
HandlerSends(t) ==
    /\ locks.pc[t] = "hold_first"
    /\ LockStep(Requested(locks, t, SecondLock(locks.op[t]), "wait_second"))

\* The handler returns Err while it holds its first lock (no file session, a
\* failed open, write or flush, a wrong final hash, a failed Message::new)
HandlerFails(t) ==
    /\ locks.pc[t] = "hold_first"
    /\ LockStep(Released(locks, t, FirstLock(locks.op[t]), "ended"))

\* send_to_session returns
SendReturns(t) ==
    /\ locks.pc[t] = "hold_both"
    /\ LockStep(Released(locks, t, SecondLock(locks.op[t]), "sent"))

\* The handler returns Ok
HandlerReturns(t) ==
    /\ locks.pc[t] = "sent"
    /\ LockStep([Released(locks, t, FirstLock(locks.op[t]), "receive")
                   EXCEPT !.done[t] = @ + 1, !.op[t] = "none"])

\* accept_connection has a new connection and calls sessions.write()
AcceptStores ==
    /\ locks.pc["accept"] = "accepting"
    /\ locks.done["accept"] < MaxAccepts
    /\ LockStep(Requested(locks, "accept", "sessions", "wait_sessions"))

\* accept_connection returns
AcceptReturns ==
    /\ locks.pc["accept"] = "storing"
    /\ LockStep([Released(locks, "accept", "sessions", "accepting")
                   EXCEPT !.done["accept"] = @ + 1])

LockNext ==
    \/ \E t \in Handlers : HandlerReceive(t)
    \/ \E t \in Handlers : HandlerEnds(t)
    \/ \E t \in LockTasks : LockGranted(t)
    \/ \E t \in Handlers : HandlerSends(t)
    \/ \E t \in Handlers : HandlerFails(t)
    \/ \E t \in Handlers : SendReturns(t)
    \/ \E t \in Handlers : HandlerReturns(t)
    \/ AcceptStores
    \/ AcceptReturns

\* The runtime polls every task that can go on, and a free lock wakes the
\* head of its queue
LockFairness ==
    /\ \A t \in LockTasks : WF_vars(LockGranted(t))
    /\ \A t \in Handlers :
         /\ WF_vars(HandlerSends(t) \/ HandlerFails(t))
         /\ WF_vars(SendReturns(t))
         /\ WF_vars(HandlerReturns(t))
    /\ WF_vars(AcceptReturns)

\* The state after construction, for a run that starts with the given setup
InitWith(run) ==
    /\ cli = [s \in run.sessions |-> ClientNew]
    /\ net = {}
    /\ handler = [s \in run.sessions |-> "none"]
    /\ srv_sessions = <<>>
    /\ file_sessions = <<>>
    /\ fs = [loc \in Locations |->
               IF loc = Target(Rel(<<"a">>)) THEN run.existing ELSE NoFile]
    /\ fifo = [s \in run.sessions |-> TRUE]
    /\ opened = {}
    /\ last = NoLast
    /\ faults = [s \in run.sessions |-> 0]
    /\ codec = CodecNew
    /\ tr = TransportNew
    /\ setup = run
    /\ audit = AuditNew
    /\ dl = DownloadNew
    /\ crypto = CryptoNew
    /\ locks = LocksNew

\* One connection, the default sizes, an empty root directory
DefaultRun ==
    [max_file_size |-> max_file_size, fault_budget |-> MaxFaults,
     chunk_size |-> chunk_size, sessions |-> {"s1"}, existing |-> NoFile]

Init == InitWith(DefaultRun)

\* The server is started with some --max-file-size
LimitInit ==
    \E size \in CliSizes : InitWith([DefaultRun EXCEPT !.max_file_size = size])

\* The transport may fail more sends
UploadInit == InitWith([DefaultRun EXCEPT !.fault_budget = MaxSendFaults])

\* The client is started with some --chunk-size
ChunkingInit ==
    \E size \in 1 .. MaxChunkSize : InitWith([DefaultRun EXCEPT !.chunk_size = size])

\* The server accepts two connections
IsolationInit == InitWith([DefaultRun EXCEPT !.sessions = {"s1", "s2"}])

\* The root directory already holds a file at the path of the upload
OverwriteInit ==
    \E data \in ExistingFiles :
        InitWith([DefaultRun EXCEPT !.existing = [exists |-> TRUE, data |-> data]])

Next ==
    \/ \E s \in Sessions : Connect(s)
    \/ \E s \in Sessions : UploadStart(s)
    \/ \E s \in Sessions : ReadChunk(s)
    \/ \E s \in Sessions : SendChunk(s)
    \/ \E s \in Sessions : SendClose(s)
    \/ \E s \in Sessions : VerifyFile(s)
    \/ \E s \in Sessions : Disconnect(s)
    \/ \E s \in Sessions : Corrupt(s)
    \/ \E s \in Sessions : ReceiveFileOpen(s)
    \/ \E s \in Sessions : ReceiveFileData(s)
    \/ \E s \in Sessions : ReceiveFileClose(s)
    \/ \E s \in Sessions : ReceiveError(s)

Spec == Init /\ [][Next]_vars

SessionSpec == Init /\ [][SessionNext]_vars

CodecSpec == Init /\ [][CodecNext]_vars

TransportSpec == Init /\ [][TransportNext]_vars

ConversionSpec == Init /\ [][ConversionNext]_vars

LimitSpec == LimitInit /\ [][LimitNext]_vars

DownloadSpec == Init /\ [][DownloadNext]_vars

UploadSpec == UploadInit /\ [][UploadNext]_vars

ChunkingSpec == ChunkingInit /\ [][UploadNext]_vars

IsolationSpec == IsolationInit /\ [][IsolationNext]_vars

OverwriteSpec == OverwriteInit /\ [][SessionNext]_vars

AuditSpec == Init /\ [][AuditNext]_vars

CryptoSpec == Init /\ [][CryptoNext]_vars

LockSpec == Init /\ [][LockNext]_vars /\ LockFairness

(***************************************************************************)
(* Properties                                                              *)
(***************************************************************************)
RECURSIVE Flatten(_)
Flatten(chunks) ==
    IF chunks = <<>> THEN <<>> ELSE Head(chunks).data \o Flatten(Tail(chunks))

ClosedSession == last.op = "FileClose" /\ last.why # "not_found"

\* C1: when the FileClose handler succeeds, the one-piece hash of the chunks
\* the server absorbed for that file_id, concatenated in the order it absorbed
\* them, equals the final_hash of the FileClose; and a FileClose whose
\* final_hash differs from the finalized streaming hash gets a File error.
C1_CloseHashVerified ==
    ClosedSession =>
      /\ last.ok => HashOf(Flatten(last.session.accepted)) = last.msg.final_hash
      /\ last.msg.final_hash # HasherFinalize(last.session.hasher)
           => ~last.ok /\ last.error = "File"

\* C1 witness: a FileClose succeeded for a session that absorbed two chunks
C1_Witness ==
    /\ ClosedSession
    /\ last.ok
    /\ Len(last.session.accepted) >= 2

\* Every frame of the connection of the last handled frame was handled in the
\* order it was sent
InOrderSoFar == \A s \in Sessions : last.conn = s => fifo[s]

\* C2: when the FileClose handler succeeds, FileSession.total_bytes equals the
\* file_size declared by the FileOpen that created the FileSession (stated for
\* the runs that handle every frame in the order sent).
C2_CloseSizeMatches ==
    (ClosedSession /\ last.ok /\ InOrderSoFar)
    => last.session.total_bytes = last.session.file_size

\* C3: once the server has accepted an upload's FileOpen, every FileData and
\* the FileClose of that upload, handled in the order sent, finds an open
\* FileSession for its file_id; and an upload that returned Ok with no
\* transport fault, all of whose frames were handled in order, ended with a
\* successful FileClose.
C3_UploadFindsItsSession ==
    /\ (last.op \in {"FileData", "FileClose"} /\ last.open_accepted /\ InOrderSoFar)
         => last.why # "not_found"
    /\ \A s \in Sessions :
         (/\ cli[s].result = "Ok"
          /\ cli[s].verifies = 0
          /\ faults[s] = 0
          /\ fifo[s]
          /\ Receivable(s) = {})
         => (last.op = "FileClose" /\ last.ok)

\* C4: a FileOpen whose path has `..` components and resolves outside the
\* root directory is rejected with a File error and creates no FileSession.
C4_TraversalRejected ==
    (/\ last.op = "FileOpen"
     /\ HasDotDot(last.msg.path)
     /\ ~InsideRoot(Target(last.msg.path)))
    => (~last.ok /\ last.error = "File" /\ last.session = NoFileSession)

\* C5: a FileData is accepted only if its chunk_hash equals the server's
\* streaming-hasher state after absorbing the chunk; in particular a chunk
\* altered in transit is refused when it is processed (stated for the runs
\* that handle every frame in the order sent).
C5_ChunkHashVerified ==
    (last.op = "FileData" /\ last.ok /\ InOrderSoFar)
    => (/\ last.msg.chunk_hash = HasherFinalize(last.session.hasher)
        /\ ~last.msg.altered)

\* C6: after a FileClose that failed the final-hash comparison, the file the
\* transfer wrote does not exist under the server root (stated for the runs
\* that handle every frame in the order sent).
C6_PartialFileDeleted ==
    (/\ last.op = "FileClose"
     /\ last.why = "integrity"
     /\ last.session.file_handle.open
     /\ InOrderSoFar)
    => ~fs[Target(last.session.file_path)].exists

\* C7: once a session handler has terminated, no FileSession opened by that
\* session remains in the file-session table.
C7_NoSessionOutlivesHandler ==
    \A s \in Sessions :
      handler[s] = "failed" =>
        \A k \in DOMAIN file_sessions : file_sessions[k].owner # s

\* C8: a FileOpen for a path for which the same session still holds an open
\* FileSession is rejected, and no two open FileSessions have the same
\* remote path (stated for the runs that handle every frame in the order
\* sent).
C8_OneSessionPerFile ==
    (\A s \in Sessions : fifo[s]) =>
      /\ (last.op = "FileOpen" /\ last.clash) => ~last.ok
      /\ \A k1, k2 \in DOMAIN file_sessions :
           k1 # k2 => file_sessions[k1].file_path # file_sessions[k2].file_path

\* C9: with no transport fault, for one file_id the server handles frames in
\* the order the client sent them (none is handled while a frame sent earlier
\* for that file_id is still in flight), and the chunks it writes have
\* ascending chunk_index.
C9_InOrderPerFile ==
    \A s \in Sessions :
      (last.conn = s /\ faults[s] = 0) =>
        /\ last.op \in {"FileData", "FileClose"} => last.in_order
        /\ \A i \in 1..(Len(last.session.accepted) - 1) :
             last.session.accepted[i].chunk_index
               <= last.session.accepted[i + 1].chunk_index

\* C10: a chunk (file_id, chunk_index) is written and absorbed at most once,
\* also when the client retries a FileData (stated for the runs that handle
\* every frame in the order sent).
C10_ChunkAtMostOnce ==
    InOrderSoFar =>
      \A i, j \in 1..Len(last.session.accepted) :
        i # j => last.session.accepted[i].chunk_index
                   # last.session.accepted[j].chunk_index

\* C18: a frame with valid fields, serialized and then deserialized, comes
\* back equal in every field (version, message_type, flags, length, sequence,
\* timestamp, payload and hmac).
C18_FrameRoundTrip ==
    (codec.op = "deserialized" /\ codec.frame # NoFrame)
    => (codec.result.ok /\ codec.result.frame = codec.frame)

C18_Witness ==
    /\ codec.op = "deserialized"
    /\ codec.frame # NoFrame
    /\ codec.frame.payload = BlobOf(<<1, 0, 255>>)
    /\ codec.frame.flags.high_priority
    /\ codec.frame.sequence = 258
    /\ codec.result.ok

ReservedBits(flags) == flags \div 32

\* C20: Frame::deserialize returns a Protocol error for every input whose
\* length field exceeds the payload ceiling of 16 MiB (also when the input
\* holds that many payload bytes), whose version byte is not 1, or whose
\* flags field has a reserved bit set.
C20_InvalidHeaderRejected ==
    (/\ codec.op = "deserialized"
     /\ BLen(codec.wire) >= HeaderSize
     /\ \/ from_be_bytes(codec.wire, 4, 4) > PayloadCeiling
        \/ BAt(codec.wire, 0) # PROTOCOL_VERSION
        \/ ReservedBits(from_be_bytes(codec.wire, 2, 2)) # 0)
    => (~codec.result.ok /\ codec.result.error = "Protocol")

\* C11: every frame sent on a session carries the sequence of the frame sent
\* before it in the same direction plus one.
C11_SequenceIncrements ==
    \A m1, m2 \in net :
      (m1.conn = m2.conn /\ m2.stream = m1.stream + 1)
      => m2.sequence = m1.sequence + 1

\* C13: the server handles a FileOpen, FileData or FileClose of a session
\* only when the session's handshake has completed: never while the
\* session's state is Initial or Handshaking.
C13_HandshakeBeforeFiles ==
    last.op \in FileMessageTypes => last.state \notin {"Initial", "Handshaking"}

\* The message types the session loop may not get in a state
NotPermitted(state, type) ==
    \/ type \in {"Heartbeat", "PolicyUpdate"}
    \/ type = "Handshake" /\ state \notin {"Initial", "Handshaking"}

\* C16: after the server has received a message whose type is not permitted
\* in the session's state (a Heartbeat or PolicyUpdate in the file-message
\* loop, a Handshake after the handshake), the session's state is Error.
C16_UnpermittedMessageToError ==
    \A s \in Sessions :
      (last.conn = s /\ NotPermitted(last.state, last.op))
      => srv_sessions[s].state = "Error"

\* C17: after the server has received an EmergencyStop for a session, the
\* session's state is Closed and no FileSession of that session is left in
\* the table.
C17_EmergencyStopAborts ==
    \A s \in Sessions :
      (last.conn = s /\ last.op = "EmergencyStop" /\ fifo[s])
      => /\ srv_sessions[s].state = "Closed"
         /\ \A k \in DOMAIN file_sessions : file_sessions[k].owner # s

\* C12: a received frame whose sequence number was already seen on the
\* session, or is older than the highest seen minus the replay window of
\* 1024, is not delivered and is counted as an error.
C12_ReplayDropped ==
    tr.rx.replay => (~tr.rx.delivered /\ tr.rx.counted)

\* C14: a session is Ready only after a handshake: the client has sent and
\* received a Handshake message, and a server session has received one.
C14_ReadyOnlyAfterHandshake ==
    /\ tr.state = "Ready"
         => ("Handshake" \in tr.sent_types /\ "Handshake" \in tr.received_types)
    /\ \A id \in DOMAIN tr.sessions :
         tr.sessions[id].state = "Ready" => tr.sessions[id].messages_received >= 1

\* No step out of Closed, none from Ready back to Initial or Handshaking
ForwardOnly(prev, state) ==
    /\ prev = "Closed" => state = "Closed"
    /\ prev = "Ready" => state \notin {"Initial", "Handshaking"}

\* C15: under every sequence of transport operations no operation moves a
\* session out of Closed, or back from Ready to Initial or Handshaking.
C15_StateEdgesOnly ==
    /\ ForwardOnly(tr.prev, tr.state)
    /\ \A id \in DOMAIN tr.sessions :
         ForwardOnly(tr.sessions[id].prev, tr.sessions[id].state)

\* C21: MessageType::try_from(b) is Ok(M) with M as u8 = b for every byte
\* b in 0x01..0x07, and a Protocol error for 0x00 and 0x08..0xFF.
C21_MessageTypeBytes ==
    codec.op = "try_from" =>
        LET b == BAt(codec.wire, 0)
        IN  IF b \in 1 .. 7
            THEN /\ codec.result.ok
                 /\ codec.result.value \in MessageTypes
                 /\ MessageTypeAsU8(codec.result.value) = b
            ELSE ~codec.result.ok /\ codec.result.value = "Protocol"

C21_Witness ==
    /\ codec.op = "try_from"
    /\ BAt(codec.wire, 0) = 7
    /\ codec.result = [ok |-> TRUE, value |-> "EmergencyStop"]

\* C22: for each of the 32 flag sets, Flags::from(u16::from(flags)) is the
\* same flag set, and u16::from(flags) has no bit set outside bits 0 to 4.
C22_FlagsRoundTrip ==
    codec.op = "flags" =>
        /\ codec.result.flags = codec.frame.flags
        /\ codec.result.bits \in 0 .. 31

C22_Witness ==
    /\ codec.op = "flags"
    /\ codec.frame.flags = [eom |-> TRUE, compressed |-> FALSE, encrypted |-> TRUE,
                            requires_ack |-> FALSE, high_priority |-> TRUE]
    /\ codec.result.bits = 21

\* C23: a FileOpen whose declared size exceeds MAX_FILE_SIZE is rejected
\* with a File error, creates no FileSession, is not acknowledged and
\* leaves the file-session table as it was.
C23_OversizeOpenRejected ==
    \A s \in Sessions :
        (last.conn = s /\ last.op = "FileOpen" /\ last.msg.size > MAX_FILE_SIZE) =>
            /\ ~last.ok
            /\ last.error = "File"
            /\ last.session = NoFileSession
            /\ file_sessions = last.table_before
            /\ srv_sessions[s].messages_sent = last.sent_before

\* C24: download_file accepts a FileData exactly when its chunk_hash is the
\* hash of all bytes received so far, this chunk included, returns a File
\* error otherwise, and accepts a FileClose exactly when its final_hash is
\* the hash of all bytes received.
C24_DownloadRunningHash ==
    /\ dl.last.type = "FileData" =>
         /\ dl.last.accepted <=>
              dl.last.hash = HasherFinalize(HasherUpdate(dl.last.hasher_before,
                                                         dl.last.data))
         /\ ~dl.last.accepted => dl.result = "File"
    /\ dl.last.type = "FileClose" =>
         /\ dl.last.accepted <=> dl.last.hash = HasherFinalize(dl.last.hasher_before)
         /\ ~dl.last.accepted => dl.result = "File"

\* The FileData frames and the FileClose an upload has written
DataFrames(s) == {m \in net : m.conn = s /\ m.type = "FileData"}

CloseFrames(s) == {m \in net : m.conn = s /\ m.type = "FileClose"}

\* The bytes of chunks 0..k, from the frames written
RECURSIVE Cumulative(_, _)
Cumulative(s, k) ==
    IF k < 0 THEN <<>>
    ELSE Cumulative(s, k - 1)
         \o (CHOOSE m \in DataFrames(s) : m.chunk_index = k).data

\* C25: the chunk_hash of the k-th FileData upload_file sends is the hash,
\* computed in one piece, of chunks 0..k, and the final_hash of its
\* FileClose is the hash of all chunks, which are a whole local file.
C25_ChunkHashCumulative ==
    \A s \in Sessions :
        /\ \A m \in DataFrames(s) :
             m.chunk_hash = HashOf(Cumulative(s, m.chunk_index))
        /\ \A m \in CloseFrames(s) :
             /\ m.final_hash = HashOf(Cumulative(s, m.statistics.chunks_count - 1))
             /\ \E file \in LocalFiles :
                  Cumulative(s, m.statistics.chunks_count - 1) = file.data

C25_Witness ==
    \E s \in Sessions :
        /\ \E m \in DataFrames(s) : m.chunk_index = 2 /\ m.chunk_hash = HashOf(<<1, 0, 1>>)
        /\ \E m \in CloseFrames(s) : m.final_hash = HashOf(<<1, 0, 1>>)

\* C26: a failed send of a chunk is followed by a send of the same FileData
\* while fewer than three retries were made, and by the return of the error
\* at the fourth failure; the retry counter starts at zero for each chunk;
\* after the error upload_file writes no frame.
C26_RetryAtMostThrice ==
    [][\A s \in Sessions :
        /\ (cli[s].pc = "sending" /\ cli'[s] # cli[s]) =>
             /\ \A m \in net' \ net :
                  /\ m.type = "FileData"
                  /\ m.file_id = cli[s].file_id
                  /\ m.chunk_index = cli[s].chunks_count
                  /\ m.data = cli[s].chunk
                  /\ m.chunk_hash = cli[s].chunk_hash
             /\ IF faults'[s] = faults[s]
                THEN cli'[s].pc = "reading"
                ELSE IF cli[s].retry_count < 3
                THEN /\ cli'[s].pc = "sending"
                     /\ cli'[s].retry_count = cli[s].retry_count + 1
                     /\ cli'[s].file_id = cli[s].file_id
                     /\ cli'[s].chunks_count = cli[s].chunks_count
                     /\ cli'[s].chunk = cli[s].chunk
                     /\ cli'[s].chunk_hash = cli[s].chunk_hash
                ELSE cli'[s].pc = "idle" /\ cli'[s].result = "Err"
        /\ (cli[s].pc = "reading" /\ cli'[s].pc = "sending") => cli'[s].retry_count = 0
        /\ (cli[s].pc = "idle" /\ cli[s].result = "Err") => net' = net
      ]_vars

C26_Witness ==
    \E s \in Sessions :
        /\ cli[s].pc = "idle"
        /\ cli[s].result = "Err"
        /\ cli[s].messages_sent = 2
        /\ Cardinality({m \in DataFrames(s) : m.chunk_index = 1}) = 4
        /\ CloseFrames(s) = {}

\* The FileUpload entries the audit log holds
UploadEntries ==
    {i \in DOMAIN audit.emitted : audit.emitted[i].entry.event_type = "FileUpload"}

\* C27: when the server finishes an upload, one FileUpload audit event has
\* been emitted: with result Success and the bytes received when the final
\* hash matched, with result Failure when the final hash check failed.
C27_UploadAudited ==
    /\ (last.op = "FileClose" /\ last.ok) =>
         /\ Cardinality(UploadEntries) = 1
         /\ \A i \in UploadEntries :
              /\ audit.emitted[i].entry.result = "Success"
              /\ audit.emitted[i].entry.bytes_transferred = Some(last.session.total_bytes)
    /\ (last.op = "FileClose" /\ last.why = "integrity") =>
         \E i \in UploadEntries : audit.emitted[i].entry.result = "Failure"

\* C28: with audit_log_signing set, every entry log_event hands to a
\* destination carries a signature that verify_event_signature accepts.
C28_EmittedEventsSigned ==
    (audit.op = "logged" /\ audit.config.audit_log_signing) =>
        \A i \in DOMAIN audit.emitted :
            /\ "signature" \in DOMAIN audit.emitted[i].entry
            /\ verify_event_signature(audit.event)

\* C29: after an event was signed by sign_event and one field of the
\* canonical serialization was changed, verify_event_signature is false.
C29_SignatureCoversAllFields ==
    (audit.op = "verified" /\ audit.stage = "changed") => ~audit.verified

\* C30: the severity of an entry is, for result Success: Info for
\* Authentication, Warning for SecurityEvent, Debug otherwise; for Failure:
\* Error for Authentication, Critical for SecurityEvent, Warning otherwise;
\* for Denied: Warning.
C30_SeverityTable ==
    audit.op = "logged" =>
        \A i \in DOMAIN audit.emitted :
            LET entry == audit.emitted[i].entry
                row == IF entry.event_type = "Authentication" THEN <<"Info", "Error", "Warning">>
                       ELSE IF entry.event_type = "SecurityEvent"
                       THEN <<"Warning", "Critical", "Warning">>
                       ELSE <<"Debug", "Warning", "Warning">>
            IN  /\ entry.result = "Success" => entry.severity = row[1]
                /\ entry.result = "Failure" => entry.severity = row[2]
                /\ entry.result = "Denied" => entry.severity = row[3]

C30_Witness ==
    /\ audit.op = "logged"
    /\ \E i \in DOMAIN audit.emitted :
         /\ audit.emitted[i].sink = "siem"
         /\ audit.emitted[i].entry.event_type = "Authentication"
         /\ audit.emitted[i].entry.result = "Failure"
         /\ audit.emitted[i].entry.severity = "Error"

\* C31: log_event pushes the entry to the SIEM sink exactly when the event's
\* result is Failure or its action is SecurityEvent, once, and besides one
\* write of the same entry to each destination of the configuration that
\* log_event knows (stdout, audit_file, syslog).
SinkEntries(sink) == {i \in DOMAIN audit.emitted : audit.emitted[i].sink = sink}

C31_SiemPushIffCritical ==
    audit.op = "logged" =>
        LET critical == audit.event.result = "Failure"
                        \/ audit.event.action = "SecurityEvent"
            configured == {audit.config.log_destinations[i] :
                             i \in DOMAIN audit.config.log_destinations}
        IN  /\ Cardinality(SinkEntries("siem")) = IF critical THEN 1 ELSE 0
            /\ \A sink \in configured \cap {"stdout", "audit_file", "syslog"} :
                 Cardinality(SinkEntries(sink)) = 1
            /\ \A i \in DOMAIN audit.emitted :
                 audit.emitted[i].entry = create_log_entry(audit.event)

C31_Witness ==
    /\ audit.op = "logged"
    /\ audit.event.result = "Failure"
    /\ audit.event.action = "FileUpload"
    /\ SinkEntries("siem") # {}
    /\ SinkEntries("audit_file") # {}

C31_WitnessQuiet ==
    /\ audit.op = "logged"
    /\ audit.event.result = "Success"
    /\ audit.event.action = "FileUpload"
    /\ SinkEntries("siem") = {}
    /\ SinkEntries("stdout") # {}

\* C32: with the hybrid algorithm, verify returns true only if the Ed25519
\* part and the ML-DSA-65 part of the signature both verify, and returns
\* false when exactly one of the two does not (for a signature of at least
\* 64 bytes and a public key of at least 32, so that both parts exist).
ClassicalPartVerifies ==
    ring_verify(crypto.verified.message, PTake(crypto.verified.signature, 64),
                PTake(crypto.verified.public_key, 32))

PqPartVerifies ==
    verify_post_quantum_signature("MlDsa65", crypto.verified.message,
                                  PDrop(crypto.verified.signature, 64),
                                  PDrop(crypto.verified.public_key, 32)) = "true"

C32_HybridNeedsBoth ==
    (/\ crypto.op = "verified"
     /\ crypto.signature = "HybridEd25519MlDsa65"
     /\ PLen(crypto.verified.signature) >= 64
     /\ PLen(crypto.verified.public_key) >= 32) =>
        /\ crypto.verified.outcome = "true" => ClassicalPartVerifies /\ PqPartVerifies
        /\ ClassicalPartVerifies # PqPartVerifies => crypto.verified.outcome = "false"

\* C33: for each of the four signature algorithms sign succeeds, verify on
\* the message, signature and public key it returned gives true, and for the
\* hybrid algorithm the signature and the public key are the Ed25519 one
\* followed by the ML-DSA-65 one.
C33_SignThenVerify ==
    /\ crypto.op \in {"signed", "verified"} /\ crypto.message # "none" => crypto.signed.ok
    /\ crypto.op = "verified" /\ crypto.verified.of_sign =>
         crypto.verified.outcome = "true"
    /\ crypto.op = "signed" /\ crypto.signature = "HybridEd25519MlDsa65" =>
         \E classical \in KeyPairs, pq \in KeyPairs :
            /\ crypto.signed.signature =
                 PCat(EdSignature(classical, crypto.message),
                      OqsSignature("Dilithium3", pq, crypto.message))
            /\ crypto.signed.public_key =
                 PCat(EdPublicKey(classical), OqsPublicKey("Dilithium3", pq))

\* C34: hybrid verify returns a Crypto error, and does not panic, for every
\* signature whose length is not 64 plus an ML-DSA-65 signature's and every
\* public key whose length is not 32 plus an ML-DSA-65 public key's.
C34_HybridLengthsChecked ==
    (/\ crypto.op = "verified"
     /\ crypto.signature = "HybridEd25519MlDsa65"
     /\ \/ PLen(crypto.verified.signature) # 64 + length_signature("Dilithium3")
        \/ PLen(crypto.verified.public_key) # 32 + length_public_key("Dilithium3")) =>
        crypto.verified.outcome = "Crypto"

\* The frames a connection's upload_file wrote, and those whose send_message
\* returned Ok
Frames(s) == {m \in net : m.conn = s}

SentData(s) == {m \in DataFrames(s) : m.sent_ok}

C36_ChunksAreFull ==
    \A s \in Sessions :
        (cli[s].uploads = 1 /\ cli[s].pc = "idle" /\ cli[s].result = "Ok") =>
            \A c \in CloseFrames(s) :
                LET bytes == c.statistics.bytes_transferred
                    n == (bytes + setup.chunk_size - 1) \div setup.chunk_size
                IN  /\ Cardinality(SentData(s)) = n
                    /\ \A m \in SentData(s) :
                         m.chunk_index < n - 1 => Len(m.data) = setup.chunk_size

\* C37: a FileData or FileClose that names a FileSession opened by another
\* connection gets the File error of a missing file session, and leaves that
\* FileSession, its hasher and its file as they were (stated for the runs
\* where every connection's frames were handled in the order sent).
C37_FileSessionsIsolated ==
    (/\ last.op \in {"FileData", "FileClose"}
     /\ \A s \in Sessions : fifo[s]
     /\ last.msg.file_id \in DOMAIN last.table_before
     /\ last.table_before[last.msg.file_id].owner # last.conn) =>
        /\ ~last.ok
        /\ last.why = "not_found"
        /\ file_sessions = last.table_before
        /\ fs[Target(last.table_before[last.msg.file_id].file_path)] = last.file_before

\* C38: after a FileClose succeeds, the file at the target path holds
\* exactly the chunks received for the FileSession, in the order received,
\* and as many bytes as the FileSession counted, also when a file was at
\* that path before (stated for the runs where the frames were handled in
\* the order sent).
C38_FileIsWhatWasReceived ==
    (last.op = "FileClose" /\ last.ok /\ InOrderSoFar) =>
        LET file == fs[Target(last.session.file_path)]
        IN  last.session.chunks_received > 0 =>
                /\ file.exists
                /\ file.data = Flatten(last.session.accepted)
                /\ Len(file.data) = last.session.total_bytes

\* C40: upload_file never divides by zero: whatever the elapsed time, 0 ms
\* included, it builds the FileClose statistics and does not panic.
C40_ThroughputDefined ==
    \A s \in Sessions : cli[s].pc # "panicked"

\* C39: the session handlers never deadlock.  A handler holds the transport's
\* session-table lock only while it holds the file-session table lock, and
\* never waits for the file-session table lock while it holds the other; a
\* task that waits for a lock gets it, and a task that holds a lock gives it
\* up, under every interleaving of the handlers and the accept loop.
Queued(lock) == {locks.queue[lock][i] : i \in DOMAIN locks.queue[lock]}

LockOrder ==
    \A t \in Handlers :
        /\ locks.holder["sessions"] = t => locks.holder["file_sessions"] = t
        /\ t \in Queued("file_sessions") => locks.holder["sessions"] # t

C39_HandlersNeverDeadlock ==
    /\ []LockOrder
    /\ \A t \in LockTasks : \A lock \in LockNames :
         /\ (t \in Queued(lock)) ~> (locks.holder[lock] = t)
         /\ (locks.holder[lock] = t) ~> (locks.holder[lock] # t)

C39_Witness ==
    /\ locks.holder["file_sessions"] = "h1"
    /\ locks.op["h1"] = "FileData"
    /\ locks.op["h2"] = "FileClose"
    /\ "h2" \in Queued("file_sessions")
    /\ locks.holder["sessions"] = "accept"
    /\ "h1" \in Queued("sessions")

====
